---- MODULE Spec2Model ----
(***************************************************************************)
(* Sequencing and phase-publishing engine of the radio playback backend.   *)
(*                                                                         *)
(* The program is a single asyncio event loop.  A coroutine runs without   *)
(* interruption from one await that suspends to the next, so every action  *)
(* below is one such run: an HTTP handler from its entry to its first      *)
(* suspension, a task from one suspension point to the next.               *)
(*                                                                         *)
(* Two state objects exist side by side in the code: the legacy            *)
(* PlaybackFlags instance `flags` (state/playback_flags.py) and the        *)
(* PlaybackStatus instance `status` (state/playback_state.py).             *)
(***************************************************************************)
EXTENDS Integers, Sequences, FiniteSets, TLC

\* ───────────── bounds ─────────────
MaxTasks == 2      \* start_new_sequence calls issued (each spawns one task)
MaxStops == 2      \* /playback/stop calls issued
MaxRows  == 2      \* ranks the catalog can hold in the requested range
MaxTime  == 3      \* ticks of the clock that the heartbeats read
MaxSecs  == 2      \* length of a clip or of a track, in ticks
MaxRank  == 3      \* ranks of the rows handed to the ordering functions
MaxUsers == 2      \* Spotify accounts that log in

TaskIds == 1..MaxTasks
StopIds == 1..MaxStops
Ranks   == 1..MaxRows

Kinds      == {"decade", "collection", "continuous"}
Voices     == {"before", "over"}
Modes      == {"count_up", "count_down", "random"}
NarrPhases == {"intro", "detail", "artist"}

\* ───────────── state ─────────────
VARIABLES
  flags,         \* playback_flags.flags
  status,        \* playback_state.status
  current_task,  \* playback_control.current_task (0 = None)
  sequence_lock, \* playback_control.sequence_lock (0 = free, else the holder)
  calls,         \* start_new_sequence invocations in flight
  stops,         \* stop() invocations in flight
  tasks,         \* asyncio tasks created by start_new_sequence
  ev,            \* the three asyncio.Event objects
  hist           \* observations of the run, read only by the properties

vars == <<flags, status, current_task, sequence_lock, calls, stops, tasks, ev, hist>>

\* ───────────── small helpers ─────────────
PhaseOrder == <<"loading", "prelude", "intro", "detail", "artist", "track">>

PhaseIdx(ph) ==
  IF \E i \in 1..Len(PhaseOrder) : PhaseOrder[i] = ph
  THEN CHOOSE i \in 1..Len(PhaseOrder) : PhaseOrder[i] = ph
  ELSE 0

\* a write of phase ph after a write of phase prev to the same item keeps the
\* order loading < prelude < intro < detail < artist < track ("none": no
\* write to the item yet)
InOrder(prev, ph) == PhaseIdx(ph) > 0 /\ PhaseIdx(prev) < PhaseIdx(ph)

\* a write to status.phase while a run is in progress, as the properties
\* see it: the phase written and whether it came in order
RecordWrite(h, ph) == [h EXCEPT !.lastw = ph, !.ooo = ~InOrder(h.lastw, ph)]

Reverse(s) == [i \in 1..Len(s) |-> s[Len(s) + 1 - i]]

\* the rows of a catalog query: ORDER BY ranking over the ranks present
RECURSIVE Ascending(_)
Ascending(S) ==
  IF S = {} THEN <<>>
  ELSE LET m == CHOOSE x \in S : \A y \in S : x <= y
       IN <<m>> \o Ascending(S \ {m})

\* every arrangement random.shuffle can leave the rows in
Shuffles(S) ==
  {s \in [1..Cardinality(S) -> S] : \A i, j \in 1..Cardinality(S) : s[i] = s[j] => i = j}

\* ───────────── records ─────────────
ItemPhases == {"intro", "detail", "artist", "track"}

\* what a run is asked to play (the play_intro, play_detail,
\* play_artist_description and play_track arguments) and what its items
\* have: a narration bucket/key for intro, detail and artist, a
\* spotify_track_id for the track.  A run whose item is not fixed draws
\* both wherever the code reads them
AnyItem == [fixed |-> FALSE, play |-> {}, assets |-> {}]

Items == [fixed : {TRUE}, play : SUBSET ItemPhases, assets : SUBSET ItemPhases]

NoTask ==
  [st |-> "none", pc |-> "-", kind |-> "-", voice |-> "-",
   rows |-> <<>>, idx |-> 0, woken |-> FALSE, published |-> FALSE,
   last |-> "-", trackPub |-> FALSE, hb |-> FALSE, ducked |-> FALSE, result |-> "-",
   item |-> AnyItem]

\* asyncio.create_task: the task exists, its first step is still to run
NewTask == [NoTask EXCEPT !.st = "pending", !.pc = "start"]

\* the arguments of the runner coroutine take effect at its first step
Configure(tk, cfg) == [tk EXCEPT !.kind = cfg.kind, !.voice = cfg.voice]

\* a finished task keeps how it ended and whether it published a phase (a
\* run that ended also keeps which runner it was and the last phase it wrote)
DoneTask(res, p) == [NoTask EXCEPT !.st = "done", !.result = res, !.published = p]

\* the arguments of a run that its later steps depend on.  The play_intro,
\* play_detail, play_artist and play_track arguments are drawn where they are
\* read (PlayFlag)
Configs == [kind : Kinds, voice : Voices]

NoSnap == [is_playing |-> TRUE, stopped |-> FALSE, cancel_requested |-> TRUE, current_task |-> -1]

\* the volume of the Spotify device, as the calls of the program leave it:
\* full, ducked under a voice-over, on its way down in a fade-out, muted
FullVolume == 100

DuckVolume == 40

FadingVolume == 50

Muted == 0

InitHist ==
  [lastw |-> "none", ooo |-> FALSE,
   narrSince |-> FALSE, trackSince |-> FALSE, nfSince |-> FALSE,
   early |-> FALSE, earlyItem |-> FALSE, stale |-> FALSE, visited |-> <<>>,
   released |-> "-", discarded |-> FALSE, staleAbort |-> FALSE, late |-> FALSE,
   quiet |-> FALSE, chain |-> 0, snap1 |-> NoSnap, snap2 |-> NoSnap,
   volume |-> FullVolume]

Init ==
  /\ flags = [is_playing |-> FALSE, is_paused |-> FALSE, stopped |-> TRUE,
              cancel_requested |-> FALSE]
  /\ status = [is_playing |-> FALSE, is_paused |-> FALSE, stopped |-> TRUE,
               cancel_requested |-> FALSE, sequence_done |-> TRUE,
               phase |-> "idle", voice_style |-> "-", bed_playing |-> FALSE]
  /\ current_task = 0
  /\ sequence_lock = 0
  /\ calls = [c \in TaskIds |-> "idle"]
  /\ stops = [s \in StopIds |-> "idle"]
  /\ tasks = [t \in TaskIds |-> NoTask]
  /\ ev = [narration_done |-> FALSE, track_done |-> FALSE, skip |-> FALSE]
  /\ hist = InitHist

\* ───────────── playback_state mutators ─────────────
\* update_phase: sets the phase and the keyword fields; `vs` is the
\* voice_style entry of the context that replaces status.context ("-" when
\* the new context has none)
update_phase(st, ph, vs) == [st EXCEPT !.phase = ph, !.voice_style = vs]

mark_playing(st) ==
  [st EXCEPT !.is_playing = TRUE, !.is_paused = FALSE, !.stopped = FALSE,
             !.sequence_done = FALSE]

\* ───────────── asyncio.Event ─────────────
EventClearKeeps(value) == value

EventClear(value) == FALSE
EventSet(value) == TRUE

\* ───────────── the sequence runners ─────────────
\* A runner step works on a record w = [flags, status, ev, hist, tk] (tk is
\* the task's own record) and yields the set of records it can leave behind.

\* one phase written by the runner through update_phase
RunnerWrite(w, ph, vs) ==
  LET tk == w.tk
      h  == w.hist
      h0 == RecordWrite(h, ph)
      h1 == [h0 EXCEPT
               !.ooo = @ \/ h.ooo,
               !.early = @ \/ (tk.voice = "before" /\ tk.last \in NarrPhases
                               /\ ~h.narrSince),
               !.narrSince = FALSE,
               !.nfSince = FALSE,
               !.trackSince = FALSE]
  IN [w EXCEPT !.status = update_phase(@, ph, vs),
               !.hist = h1,
               !.tk.published = TRUE,
               !.tk.last = ph,
               !.tk.trackPub = IF ph = "track" THEN TRUE ELSE @]

\* the reset block and the "loading" frame at the head of
\* run_decade_genre_sequence and run_collection_continuous_sequence
ResetAndLoad(w) ==
  LET st0 == [w.status EXCEPT !.stopped = FALSE, !.cancel_requested = FALSE,
                              !.phase = "none", !.bed_playing = FALSE]
      fl0 == [w.flags EXCEPT !.is_playing = TRUE, !.stopped = FALSE,
                             !.cancel_requested = FALSE]
      w0  == [w EXCEPT !.status = mark_playing(st0), !.flags = fl0]
  IN RunnerWrite(w0, "loading", "-")

\* the observations of a run end with it
EndRun(h) ==
  [h EXCEPT !.lastw = "none", !.visited = <<>>, !.narrSince = FALSE,
            !.trackSince = FALSE, !.nfSince = FALSE, !.released = "-",
            !.discarded = FALSE]

\* the finally block of the two runners that have one
Teardown(fl) == [fl EXCEPT !.is_playing = FALSE, !.stopped = TRUE]

HasFinally(kind) == kind \in {"decade", "continuous"}

Finish(w, res) ==
  [w EXCEPT !.flags = IF HasFinally(w.tk.kind) THEN Teardown(@) ELSE @,
            !.hist = EndRun(@),
            !.tk = [DoneTask(res, w.tk.published) EXCEPT
                      !.kind = w.tk.kind, !.voice = w.tk.voice, !.last = w.tk.last,
                      !.item = w.tk.item]]

\* _is_cancelled_or_stopped (decade_genre_sequence.py)
IsCancelledOrStopped(st, fl) ==
  st.stopped \/ st.cancel_requested \/ fl.stopped \/ fl.cancel_requested

\* the check at the top of the continuous loop reads status only
LoopCancelled(st) == st.stopped \/ st.cancel_requested

NeverWaitsForNarration(voice) == FALSE

AlwaysWaitsForNarration(voice) == TRUE

\* publish_narration_phase waits only in voice style "before"
WaitsForNarration(voice) == voice = "before"

NeverWaitsForTrack(kind) == FALSE

AlwaysWaitsForTrack(kind) == TRUE

\* only the continuous runner waits on track_done_event
WaitsForTrack(kind) == kind = "continuous"

\* the play_<phase> argument of the run.  A phase that is switched off and a
\* phase whose asset is missing are passed over in the same way (PhaseGuard)
PlayFlag(tk, ph) == IF tk.item.fixed THEN {ph \in tk.item.play} ELSE BOOLEAN

\* the bucket and key of a narration (_extract_bucket_key, narration_keys_for)
\* or the spotify_track_id of the track: there or not
HasAsset(tk, ph) == IF tk.item.fixed THEN {ph \in tk.item.assets} ELSE BOOLEAN

PhaseGuardIgnoresAsset(enabled, asset) == enabled

\* `if play_detail and detail_bucket and detail_key:` and its siblings
PhaseGuard(enabled, asset) == enabled /\ asset

\* whether the phase is gone through, for each way the guard can come out
PhaseRuns(tk, ph) ==
  {PhaseGuard(enabled, asset) : enabled \in PlayFlag(tk, ph), asset \in HasAsset(tk, ph)}

After(ph) ==
  CASE ph = "intro"  -> "detail"
    [] ph = "detail" -> "artist"
    [] ph = "artist" -> "track"
    [] ph = "track"  -> "end"

\* the "prelude" frame that opens an item (not published by
\* run_collection_sequence)
Prelude(w) ==
  LET tk == w.tk
      h  == w.hist
      h1 == [h EXCEPT
               !.lastw = IF tk.idx > 1 THEN "none" ELSE @,
               !.earlyItem = @ \/ (tk.trackPub /\ ~h.trackSince),
               !.visited = Append(@, tk.rows[tk.idx])]
      w1 == [w EXCEPT !.hist = h1, !.tk.trackPub = FALSE,
                      !.status.is_playing = TRUE]
  IN RunnerWrite(w1, "prelude", tk.voice)

\* a wait on an event: returns at once when the event is set, suspends
\* otherwise
Suspend(w, ph) == [w EXCEPT !.tk.pc = ph, !.tk.woken = FALSE]

\* a wait is over: which one, and whether the signal that ended it was set
\* after the publish
Released(w, ph, fresh) == [w EXCEPT !.hist.stale = @ \/ ~fresh, !.hist.released = ph]

\* one stage of a runner: the pairs [stage, w] it can lead to; the stage
\* "halt" marks a record in which the task is suspended or has finished
At(stage, w) == [stage |-> stage, w |-> w]

Stage(stage, w) ==
  LET tk == w.tk IN
  CASE stage = "loop" ->
         IF tk.idx > Len(tk.rows) THEN {At("halt", Finish(w, "complete"))}
         ELSE IF tk.kind = "continuous" /\ LoopCancelled(w.status)
              THEN {At("halt", Finish(w, "stopped"))}
         ELSE IF tk.kind = "collection" THEN {At("intro", w)}
         ELSE {At("intro", Prelude(w))}
    [] stage \in NarrPhases ->
         LET w1 == RunnerWrite(w, stage, tk.voice)
             w2 == [w1 EXCEPT !.ev.narration_done = EventClear(@),
                              !.hist.discarded = @ \/ w1.ev.narration_done]
             published ==
               IF WaitsForNarration(tk.voice)
               THEN IF w2.ev.narration_done
                    THEN At(After(stage), Released(w2, stage, w2.hist.narrSince))
                    ELSE At("halt", Suspend(w2, stage))
               ELSE At(After(stage), w1)
         IN {IF runs THEN published ELSE At(After(stage), w) : runs \in PhaseRuns(tk, stage)}
    [] stage = "track" ->
         LET w1 == IF WaitsForTrack(tk.kind)
                   THEN [w EXCEPT !.ev.track_done = EventClear(@),
                                  !.hist.discarded = @ \/ w.ev.track_done]
                   ELSE w
             w2 == RunnerWrite(w1, "track", "-")
             published ==
               IF WaitsForTrack(tk.kind)
               THEN IF w2.ev.track_done
                    THEN At("end", Released(w2, "track", w2.hist.trackSince))
                    ELSE At("halt", Suspend(w2, "track"))
               ELSE At("end", w2)
         IN {IF runs THEN published ELSE At("end", w) : runs \in PhaseRuns(tk, "track")}
    [] stage = "end" ->
         IF tk.kind = "continuous"
         THEN {At("loop", [w EXCEPT !.tk.idx = @ + 1])}
         ELSE {At("halt", Finish(w, "complete"))}

\* the runner runs stage after stage until it suspends or finishes
RECURSIVE RunAll(_, _)
RunAll(frontier, halted) ==
  IF frontier = {} THEN halted
  ELSE LET nxt == UNION {Stage(x.stage, x.w) : x \in frontier}
       IN RunAll({x \in nxt : x.stage # "halt"},
                 halted \cup {x.w : x \in {y \in nxt : y.stage = "halt"}})

Run(stage, w) == RunAll({At(stage, w)}, {})

\* ───────────── ordering of the fetched rows ─────────────
\* the ordering block of the runners: count_up keeps the query order,
\* count_down reverses it, random shuffles
OrderRows(rows, mode) ==
  CASE mode = "count_up"   -> {rows}
    [] mode = "count_down" -> {Reverse(rows)}
    [] mode = "random"     -> Shuffles({rows[i] : i \in 1..Len(rows)})

\* rows.sort(key=ranking): the rows, which are their ranks here, ascending
SortRows(rows) == Ascending({rows[i] : i \in 1..Len(rows)})

order_rows_as_given(rows, mode) == OrderRows(rows, mode)

\* order_rows_for_mode (playback_ordering.py)
order_rows_for_mode(rows, mode) ==
  IF rows = <<>> THEN {rows}
  ELSE CASE mode = "count_up"   -> {SortRows(rows)}
         [] mode = "count_down" -> {Reverse(SortRows(rows))}
         [] mode = "random"     -> Shuffles({rows[i] : i \in 1..Len(rows)})

\* the ordering of the decade runner: order_rows_for_mode, and one more
\* random.shuffle in mode random
DecadeOrder(rows, mode) ==
  IF mode = "random"
  THEN UNION {Shuffles({r[i] : i \in 1..Len(r)}) : r \in order_rows_for_mode(rows, mode)}
  ELSE order_rows_for_mode(rows, mode)

\* what a fetch can hand to the runner, already ordered
FetchedRows == UNION {OrderRows(Ascending(S), m) : S \in SUBSET Ranks, m \in Modes}

LastOnly(rows) == IF rows = <<>> THEN rows ELSE <<rows[Len(rows)]>>

\* the single-rank runners keep rows[0] only
HeadOnly(rows) == IF rows = <<>> THEN rows ELSE <<rows[1]>>

\* ───────────── plumbing ─────────────
World(t) == [flags |-> flags, status |-> status, ev |-> ev, hist |-> hist, tk |-> tasks[t]]

\* any operation other than stop() and the unwinding it causes ends a run of
\* consecutive stop() calls
\* set_device_volume(volume), on a device that takes the call
set_device_volume(h, v) == [h EXCEPT !.volume = v]

\* stop_spotify_playback run to its end: the fade loop stops at volume 0
\* and nothing raises the volume again
stop_spotify_playback(h) == [h EXCEPT !.volume = Muted]

OtherOp(h) == [h EXCEPT !.quiet = FALSE, !.chain = 0, !.snap1 = NoSnap, !.snap2 = NoSnap]

Commit(t, w) ==
  /\ flags' = w.flags
  /\ status' = w.status
  /\ ev' = w.ev
  /\ hist' = w.hist
  /\ tasks' = [tasks EXCEPT ![t] = w.tk]

\* a runner step starts with no out-of-order write of its own
StepBegin(h) == [OtherOp(h) EXCEPT !.ooo = FALSE]

\* ───────────── event loop order ─────────────
\* Task.cancel() puts the task's wake-up on the loop's ready queue; a sleep
\* armed afterwards expires only in a later loop iteration, after the ready
\* queue has been run.
TimerMayFire == \A t \in TaskIds : tasks[t].st # "cancelling"

\* ───────────── task steps ─────────────
\* first step of the task: _run_sequence_guarded enters the runner, which
\* runs to its first suspension
Launch(t, cfg, it) ==
  /\ LET w0 == [World(t) EXCEPT !.hist = StepBegin(@),
                                !.tk = [Configure(@, cfg) EXCEPT !.st = "running", !.pc = "-",
                                                                 !.item = it]]
     IN \E w \in
          CASE w0.tk.kind = "decade" ->
                 {[ResetAndLoad(w0) EXCEPT !.tk.pc = "fetch"]}
            [] w0.tk.kind = "collection" ->
                 {Finish(w0, "error"), Finish(w0, "empty")}
                 \cup UNION {Run("loop", [w0 EXCEPT !.status = mark_playing(@),
                                                    !.tk.rows = HeadOnly(r),
                                                    !.tk.idx = 1])
                             : r \in FetchedRows \ {<<>>}}
            [] w0.tk.kind = "continuous" ->
                 LET w1 == ResetAndLoad(w0)
                 IN {Finish(w1, "error"), Finish(w1, "empty")}
                    \cup UNION {Run("loop", [w1 EXCEPT !.tk.rows = r, !.tk.idx = 1])
                                : r \in FetchedRows \ {<<>>}}
        : Commit(t, w)
  /\ UNCHANGED <<current_task, sequence_lock, calls, stops>>

TaskStart(t) ==
  /\ tasks[t].st = "pending"
  /\ \E cfg \in Configs : Launch(t, cfg, AnyItem)

\* the same first step, of a run whose play flags and assets are known
ItemStart(t) ==
  /\ tasks[t].st = "pending"
  /\ \E cfg \in Configs, it \in Items : Launch(t, cfg, it)

\* the wait_for(to_thread(load_decade_genre_rows), 30s) of the decade runner
\* returns, times out or raises.  _wait_if_paused returns at once:
\* status.is_paused is set by mark_paused only, which nothing calls
\* (StatusNeverPaused)
FetchReturn(t) ==
  /\ tasks[t].st = "running"
  /\ tasks[t].pc = "fetch"
  /\ LET w0 == [World(t) EXCEPT !.hist = StepBegin(@), !.tk.pc = "-"]
     IN \E w \in
          {Finish(w0, "timeout"), Finish(w0, "error"), Finish(w0, "empty")}
          \cup (IF IsCancelledOrStopped(w0.status, w0.flags)
                THEN {Finish(w0, "stopped")}
                ELSE UNION {Run("loop", [w0 EXCEPT !.tk.rows = HeadOnly(r),
                                                        !.tk.idx = 1])
                            : r \in FetchedRows \ {<<>>}})
        : Commit(t, w)
  /\ UNCHANGED <<current_task, sequence_lock, calls, stops>>

\* the task's first step when the catalog does not answer.  The decade
\* runner leaves the query to a worker thread and suspends in wait_for; the
\* two collection runners call db.exec(stmt).all() on the event loop's own
\* thread, inside the coroutine
FetchHang(t) ==
  /\ tasks[t].st = "pending"
  /\ \E cfg \in Configs :
     LET w0 == [World(t) EXCEPT !.hist = StepBegin(@),
                                !.tk = [Configure(@, cfg) EXCEPT !.st = "running", !.pc = "-"]]
         w  == CASE w0.tk.kind = "decade"     -> [ResetAndLoad(w0) EXCEPT !.tk.pc = "hung"]
                 [] w0.tk.kind = "collection" -> [w0 EXCEPT !.tk.pc = "dbexec"]
                 [] w0.tk.kind = "continuous" -> [ResetAndLoad(w0) EXCEPT !.tk.pc = "dbexec"]
     IN Commit(t, w)
  /\ UNCHANGED <<current_task, sequence_lock, calls, stops>>

\* the 30 s of wait_for are over: asyncio.TimeoutError is caught and the
\* runner returns through its finally block
FetchTimeout(t) ==
  /\ tasks[t].st = "running"
  /\ tasks[t].pc = "hung"
  /\ Commit(t, Finish([World(t) EXCEPT !.hist = StepBegin(@), !.tk.pc = "-"], "timeout"))
  /\ UNCHANGED <<current_task, sequence_lock, calls, stops>>

\* a coroutine inside a synchronous call keeps the event loop's thread: no
\* other task, timer or request handler runs
LoopBlocked == \E t \in TaskIds : tasks[t].st = "running" /\ tasks[t].pc = "dbexec"

\* the event a suspended runner waits on has been set: wait() returns
TaskWake(t) ==
  /\ tasks[t].st = "running"
  /\ tasks[t].pc \in NarrPhases \cup {"track"}
  /\ tasks[t].woken
  /\ LET ph == tasks[t].pc
         fresh == IF ph = "track" THEN hist.trackSince ELSE hist.narrSince
         w0 == Released([World(t) EXCEPT !.hist = StepBegin(@), !.tk.pc = "-",
                                         !.tk.woken = FALSE], ph, fresh)
     IN \E w \in Run(After(ph), w0) : Commit(t, w)
  /\ UNCHANGED <<current_task, sequence_lock, calls, stops>>

\* CancelledError is thrown into the task at its suspension point; the
\* sequence runners re-raise it after their finally block, a task that never
\* started just ends (the single-track run handles it in SingleCancel)
CancelDeliver(t) ==
  /\ tasks[t].st = "cancelling"
  /\ tasks[t].kind # "single"
  /\ LET w0 == World(t)
         w  == IF w0.tk.pc = "start"
               THEN [w0 EXCEPT !.tk = DoneTask("cancelled", FALSE)]
               ELSE Finish(w0, "cancelled")
     IN Commit(t, w)
  /\ UNCHANGED <<current_task, sequence_lock, calls, stops>>

\* ───────────── cancel_current_sequence ─────────────
TaskCancelLost(tk) == tk

\* Task.cancel(): no effect on a finished task
TaskCancel(tk) ==
  IF tk.st \in {"pending", "running"} THEN [tk EXCEPT !.st = "cancelling"] ELSE tk

\* up to the await asyncio.sleep(0.15), from the flags and tasks the caller
\* has reached
CancelFrom(fl, tks) ==
  /\ flags' = [fl EXCEPT
                 !.cancel_requested = IF current_task # 0 THEN TRUE ELSE @,
                 !.is_playing = FALSE, !.stopped = TRUE, !.is_paused = FALSE]
  /\ tasks' = IF current_task # 0
              THEN [tks EXCEPT ![current_task] = TaskCancel(@)]
              ELSE tks
  /\ current_task' = 0

CancelBegin == CancelFrom(flags, tasks)

CancelEndKeepsFlag(fl) == fl

\* after the sleep: the volume is restored (failure is swallowed) and the
\* cancel flag is cleared
CancelEnd(fl) == [fl EXCEPT !.cancel_requested = FALSE]

\* ───────────── start_new_sequence ─────────────
LockWaiters == {c \in TaskIds : calls[c] = "waitlock"}

\* an endpoint builds the runner coroutine and calls start_new_sequence
StartCall(c) ==
  /\ calls[c] = "idle"
  /\ IF c = 1 THEN TRUE ELSE calls[c - 1] # "idle"
  /\ IF sequence_lock = 0 /\ LockWaiters = {}
     THEN /\ sequence_lock' = c
          /\ calls' = [calls EXCEPT ![c] = "sleep"]
          /\ CancelBegin
     ELSE /\ calls' = [calls EXCEPT ![c] = "waitlock"]
          /\ UNCHANGED <<sequence_lock, flags, tasks, current_task>>
  /\ hist' = OtherOp(hist)
  /\ UNCHANGED <<status, stops, ev>>

\* the lock is handed to the longest-waiting call
StartAcquire(c) ==
  /\ calls[c] = "waitlock"
  /\ sequence_lock = 0
  /\ \A d \in LockWaiters : c <= d
  /\ sequence_lock' = c
  /\ calls' = [calls EXCEPT ![c] = "sleep"]
  /\ CancelBegin
  /\ hist' = OtherOp(hist)
  /\ UNCHANGED <<status, stops, ev>>

UnlockForgotten(holder) == holder

\* leaving the `async with sequence_lock` block releases the lock
Unlock(holder) == 0

\* once current_task is rebound nothing refers to the finished tasks
Collected(tk) == IF tk.st = "done" THEN DoneTask("-", FALSE) ELSE tk

\* the grace delay is over: flags are re-armed, the task is created and the
\* lock released
StartSpawn(c) ==
  /\ calls[c] = "sleep"
  /\ sequence_lock = c
  /\ TimerMayFire
  /\ flags' = [CancelEnd(flags) EXCEPT !.stopped = FALSE, !.is_playing = TRUE,
                                       !.cancel_requested = FALSE]
  /\ tasks' = [u \in TaskIds |-> IF u = c THEN NewTask ELSE Collected(tasks[u])]
  /\ current_task' = c
  /\ sequence_lock' = Unlock(sequence_lock)
  /\ calls' = [calls EXCEPT ![c] = "done"]
  /\ hist' = set_device_volume(OtherOp(hist), FullVolume)
  /\ UNCHANGED <<status, stops, ev>>

\* ───────────── stop ─────────────
Snap(fl, ct) ==
  [is_playing |-> fl.is_playing, stopped |-> fl.stopped,
   cancel_requested |-> fl.cancel_requested, current_task |-> ct]

StopOpen == \E s \in StopIds : stops[s] = "sleep"

StopBegin(s) ==
  /\ stops[s] = "idle"
  /\ IF s = 1 THEN TRUE ELSE stops[s - 1] # "idle"
  /\ stops' = [stops EXCEPT ![s] = "sleep"]
  /\ CancelBegin
  /\ hist' = IF ~hist.quiet /\ ~StopOpen
             THEN [OtherOp(hist) EXCEPT !.quiet = TRUE]
             ELSE hist
  /\ UNCHANGED <<status, sequence_lock, calls, ev>>

StopEnd(s) ==
  /\ stops[s] = "sleep"
  /\ TimerMayFire
  /\ stops' = [stops EXCEPT ![s] = "done"]
  /\ flags' = CancelEnd(flags)
  /\ hist' = set_device_volume(
               IF hist.quiet
               THEN [hist EXCEPT
                       !.chain = IF @ < 2 THEN @ + 1 ELSE @,
                       !.snap1 = IF hist.chain = 0 THEN Snap(flags', current_task) ELSE @,
                       !.snap2 = IF hist.chain >= 1 THEN Snap(flags', current_task) ELSE @]
               ELSE hist,
               FullVolume)
  /\ UNCHANGED <<status, current_task, sequence_lock, calls, tasks, ev>>

\* ───────────── renderer-facing commands ─────────────
RunInProgress == \E t \in TaskIds : tasks[t].st = "running"

\* some runner is suspended in the wait that follows the publish of one of phs
Waiting(phs) == \E t \in TaskIds : tasks[t].st = "running" /\ tasks[t].pc \in phs

\* POST /playback/play-spotify: starts the track on the device, then writes
\* the "track" phase with a context of its own
play_spotify ==
  /\ status' = update_phase(status, "track", "-")
  /\ hist' = set_device_volume(IF RunInProgress THEN RecordWrite(hist, "track") ELSE hist,
                                FullVolume)
  /\ UNCHANGED <<flags, current_task, sequence_lock, calls, stops, tasks, ev>>

\* GET /playback/status: starts the bed track under a before-mode narration
\* (the Spotify calls may fail, which leaves bed_playing alone)
get_status ==
  /\ status.phase \in NarrPhases
  /\ status.voice_style = "before"
  /\ ~status.bed_playing
  /\ status' = [status EXCEPT !.bed_playing = TRUE]
  /\ hist' = set_device_volume(hist, FullVolume)
  /\ UNCHANGED <<flags, current_task, sequence_lock, calls, stops, tasks, ev>>

\* POST /playback/narration-finished: stops the bed track and sets skip_event
narration_finished ==
  /\ status' = IF status.voice_style = "before" /\ status.bed_playing
               THEN [status EXCEPT !.bed_playing = FALSE]
               ELSE status
  /\ ev' = [ev EXCEPT !.skip = EventSet(@)]
  /\ hist' = [(IF status.voice_style = "before" /\ status.bed_playing
                THEN stop_spotify_playback(hist)
                ELSE hist) EXCEPT !.nfSince = Waiting(NarrPhases)]
  /\ UNCHANGED <<flags, current_task, sequence_lock, calls, stops, tasks>>

pause ==
  /\ flags' = [flags EXCEPT !.is_paused = TRUE, !.is_playing = FALSE,
                            !.cancel_requested = TRUE]
  /\ ev' = [ev EXCEPT !.skip = EventSet(@)]
  /\ hist' = stop_spotify_playback(OtherOp(hist))
  /\ UNCHANGED <<status, current_task, sequence_lock, calls, stops, tasks>>

resume ==
  /\ flags' = [flags EXCEPT !.is_paused = FALSE, !.is_playing = TRUE]
  /\ hist' = OtherOp(hist)
  /\ UNCHANGED <<status, current_task, sequence_lock, calls, stops, tasks, ev>>

\* POST /playback/start
start ==
  /\ flags' = [flags EXCEPT !.is_playing = TRUE, !.is_paused = FALSE, !.stopped = FALSE]
  /\ hist' = OtherOp(hist)
  /\ UNCHANGED <<status, current_task, sequence_lock, calls, stops, tasks, ev>>

\* POST /playback/reset
reset_playback_state ==
  /\ status' = [status EXCEPT !.is_playing = FALSE, !.is_paused = FALSE,
                              !.stopped = TRUE, !.phase = "none",
                              !.voice_style = "-", !.bed_playing = FALSE]
  /\ flags' = [flags EXCEPT !.is_playing = FALSE, !.stopped = TRUE,
                            !.cancel_requested = FALSE]
  /\ hist' = OtherOp(hist)
  /\ UNCHANGED <<current_task, sequence_lock, calls, stops, tasks, ev>>

\* ───────────── completion signals ─────────────
\* Event.set() resolves the future of every waiter
WakeWaiters(tks, phs) ==
  [t \in TaskIds |->
     IF tks[t].st = "running" /\ tks[t].pc \in phs
     THEN [tks[t] EXCEPT !.woken = TRUE]
     ELSE tks[t]]

\* the renderer's callback that sets narration_done_event
set_narration_done ==
  /\ ev' = [ev EXCEPT !.narration_done = EventSet(@)]
  /\ tasks' = WakeWaiters(tasks, NarrPhases)
  /\ hist' = [hist EXCEPT !.narrSince = Waiting(NarrPhases)]
  /\ UNCHANGED <<flags, status, current_task, sequence_lock, calls, stops>>

\* the renderer's callback that sets track_done_event
set_track_done ==
  /\ ev' = [ev EXCEPT !.track_done = EventSet(@)]
  /\ tasks' = WakeWaiters(tasks, {"track"})
  /\ hist' = [hist EXCEPT !.trackSince = Waiting({"track"})]
  /\ UNCHANGED <<flags, status, current_task, sequence_lock, calls, stops>>

\* ───────────── the single-track run (radio_runtime) ─────────────
\* _run_single_track plays one track on the device by itself: the narration
\* clips through play_narrations, the track through play_track_with_skip,
\* and it ends with a call of cancel_current_sequence.  safe_play, the clip
\* task, is represented by its end and by its own poll of skip_event.

\* POST /playback/skip
skip ==
  /\ ev' = [ev EXCEPT !.skip = EventSet(@)]
  /\ UNCHANGED <<flags, status, current_task, sequence_lock, calls, stops, tasks, hist>>

\* _respect_user_controls raises CancelledError when status.stopped holds
\* and flags.is_playing does not (its pause loop never runs: StatusNeverPaused)
RespectRaises(st, fl) == st.stopped /\ ~fl.is_playing

\* update_phase called by the run or by its heartbeat; a write made after
\* stop() has returned, with no launch since, is recorded
SinglePublish(w, ph) ==
  [w EXCEPT !.status = update_phase(@, ph, "-"),
            !.hist.late = @ \/ (w.hist.quiet /\ w.hist.chain >= 1),
            !.tk.published = TRUE,
            !.tk.last = ph]

\* a phase found the skip signal set at its very beginning and gave up
AbortedAtBegin(w) == [w EXCEPT !.hist.staleAbort = TRUE]

AfterClip(ph) ==
  CASE ph = "intro"  -> "introend"
    [] ph = "detail" -> "artist"
    [] ph = "artist" -> "afternarr"

\* the run from one of its stages to its next suspension: the records it can
\* leave behind, tk.pc naming the await it is suspended in
RECURSIVE SingleFrom(_, _)

\* await stop_spotify_playback(...): suspends in the fade loop, or returns at
\* once when Spotify lists no device
Fade(w, pc, next) ==
  {[w EXCEPT !.tk.pc = pc, !.hist.volume = FadingVolume]} \cup SingleFrom(next, w)

\* _run_voice_clip_with_skip up to its first sleep
ClipStart(w, ph) ==
  IF RespectRaises(w.status, w.flags)
  THEN SingleFrom("nabort", w)
  ELSE {[w EXCEPT !.tk.pc = ph]}

\* the finally block of the voice-over branch: `if ducked:
\* set_device_volume(100)`
Unduck(w) ==
  IF w.tk.ducked
  THEN [w EXCEPT !.tk.ducked = FALSE, !.hist = set_device_volume(@, FullVolume)]
  ELSE w

SingleFrom(stage, w) ==
  LET tk == w.tk IN
  CASE stage = "narrations" ->
         \* play_narrations: the stale skip is cleared, then the checkpoint
         LET w1 == [w EXCEPT !.ev.skip = EventClear(@)]
         IN IF RespectRaises(w1.status, w1.flags)
            THEN SingleFrom("nabort", w1)
            ELSE IF tk.voice = "over"
                 THEN \* any_voice: set_device_volume(40) and its sleep
                      {[w1 EXCEPT !.tk.pc = "duck", !.hist = set_device_volume(@, DuckVolume)]}
                      \cup SingleFrom("intro", w1)
                 ELSE SingleFrom("intro", w1)
    [] stage = "intro" ->
         UNION {IF enabled
                THEN LET w1 == SinglePublish(w, "intro")
                     IN IF w1.ev.skip
                        THEN SingleFrom("introend",
                                        AbortedAtBegin([w1 EXCEPT !.ev.skip = EventClear(@)]))
                        ELSE ClipStart(w1, "intro")
                ELSE SingleFrom("detail", w)
                : enabled \in PlayFlag(tk, "intro")}
    [] stage = "introend" ->
         \* before mode stops the bed track in a finally block
         IF tk.voice = "before"
         THEN Fade(w, "bedfade", "detail")
         ELSE SingleFrom("detail", w)
    [] stage \in {"detail", "artist"} ->
         UNION {IF enabled
                THEN IF w.ev.skip
                     THEN SingleFrom("afternarr",
                                     AbortedAtBegin([w EXCEPT !.ev.skip = EventClear(@)]))
                     ELSE ClipStart(SinglePublish(w, stage), stage)
                ELSE SingleFrom(AfterClip(stage), w)
                : enabled \in PlayFlag(tk, stage)}
    [] stage = "afternarr" ->
         \* back in _run_single_track: the over branch is taken only with
         \* play_track and a spotify_track_id
         IF tk.voice = "over"
         THEN SingleFrom("track", Unduck(w))
         ELSE UNION {IF enabled THEN SingleFrom("track", w) ELSE SingleFrom("endcancel", w)
                     : enabled \in PlayFlag(tk, "track")}
    [] stage = "track" ->
         \* play_track_with_skip up to sleep_with_skip, which returns at
         \* once when skip_event is set and leaves it set
         \* _ensure_volume_ok() unless the track is already playing
         LET w1 == SinglePublish([w EXCEPT !.status = mark_playing(@)], "track")
             w2 == [w1 EXCEPT !.tk.hb = TRUE,
                              !.hist = IF tk.voice = "over" THEN @
                                       ELSE set_device_volume(@, FullVolume)]
         IN IF RespectRaises(w1.status, w1.flags)
            THEN Fade(w1, "cancelfade", "trackend")
            ELSE IF w2.ev.skip
                 THEN Fade(AbortedAtBegin(w2), "skipfade", "trackend")
                 ELSE {[w2 EXCEPT !.tk.pc = "track"]}
    [] stage = "finished" ->
         SingleFrom("trackend", SinglePublish(w, "track_finished"))
    [] stage = "trackend" ->
         \* the finally block cancels the heartbeat
         SingleFrom("endcancel", [w EXCEPT !.tk.hb = FALSE])
    [] stage = "nabort" ->
         \* except CancelledError in play_narrations: fade, then re-raise
         Fade(Unduck(w), "nfade", "raise")
    [] stage = "raise" ->
         {Finish(w, "cancelled")}
    [] stage = "endcancel" ->
         \* await cancel_current_sequence(), up to its sleep
         {[w EXCEPT !.tk.pc = "endsleep"]}

\* a run that has just entered its closing cancel_current_sequence applies
\* it to whatever current_task is, itself included
SingleCommit(t, w) ==
  IF w.tk.st = "running" /\ w.tk.pc = "endsleep"
  THEN /\ CancelFrom(w.flags, [tasks EXCEPT ![t] = w.tk])
       /\ status' = w.status
       /\ ev' = w.ev
       /\ hist' = w.hist
  ELSE /\ Commit(t, w)
       /\ UNCHANGED current_task

\* first step of the task: the lookup, then one of the two branches
SingleStart(t) ==
  /\ tasks[t].st = "pending"
  /\ \E voice \in Voices, found \in BOOLEAN :
       LET w0 == [World(t) EXCEPT !.tk = [@ EXCEPT !.st = "running", !.pc = "-",
                                                   !.kind = "single", !.voice = voice]]
       IN \E w \in (IF ~found THEN SingleFrom("endcancel", w0)
                    ELSE IF voice = "over" THEN {[w0 EXCEPT !.tk.pc = "oversleep"]}
                    ELSE SingleFrom("narrations", w0))
            : SingleCommit(t, w)
  /\ UNCHANGED <<sequence_lock, calls, stops>>

\* a poll that does not just go back to sleep: the checkpoint raises, or
\* skip_event is set and is cleared, by the loop of
\* _run_voice_clip_with_skip (the narration run is over, except that the
\* intro loop of before mode only breaks) or by safe_play (the clip is over,
\* the run goes on)
ClipPoll(t) ==
  /\ tasks[t].st = "running"
  /\ tasks[t].pc \in NarrPhases
  /\ RespectRaises(status, flags) \/ ev.skip
  /\ LET ph == tasks[t].pc
         w0 == [World(t) EXCEPT !.tk.pc = "-"]
         w1 == [w0 EXCEPT !.ev.skip = EventClear(@)]
     IN \E w \in (IF RespectRaises(status, flags)
                  THEN SingleFrom("nabort", w0)
                  ELSE (IF ph = "intro" /\ w0.tk.voice = "before"
                        THEN SingleFrom("introend", w1)
                        ELSE SingleFrom("afternarr", w1))
                       \cup SingleFrom(AfterClip(ph), w1))
          : SingleCommit(t, w)
  /\ UNCHANGED <<sequence_lock, calls, stops>>

\* the clip has played to its end: the loop is left without a look at
\* skip_event
ClipDone(t) ==
  /\ tasks[t].st = "running"
  /\ tasks[t].pc \in NarrPhases
  /\ \E w \in SingleFrom(AfterClip(tasks[t].pc), [World(t) EXCEPT !.tk.pc = "-"])
       : SingleCommit(t, w)
  /\ UNCHANGED <<sequence_lock, calls, stops>>

\* sleep_with_skip returns True: skip_event is set (and stays set)
TrackSkipped(t) ==
  /\ tasks[t].st = "running"
  /\ tasks[t].pc = "track"
  /\ ev.skip
  /\ \E w \in Fade([World(t) EXCEPT !.tk.pc = "-"], "skipfade", "trackend")
       : SingleCommit(t, w)
  /\ UNCHANGED <<sequence_lock, calls, stops>>

\* sleep_with_skip returns False: the play time is over
TrackTimeout(t) ==
  /\ tasks[t].st = "running"
  /\ tasks[t].pc = "track"
  /\ ~ev.skip
  /\ LET w0 == [World(t) EXCEPT !.tk.pc = "-"]
     IN \E w \in (IF w0.tk.voice = "over"
                  THEN Fade(w0, "endfade", "finished")
                  ELSE SingleFrom("finished", w0))
          : SingleCommit(t, w)
  /\ UNCHANGED <<sequence_lock, calls, stops>>

SingleFades == {"bedfade", "skipfade", "endfade", "cancelfade", "nfade"}

SingleTimers == {"oversleep", "duck", "endsleep"} \cup SingleFades

\* a sleep or a fade of the run is over
TimerDone(t) ==
  /\ tasks[t].st = "running"
  /\ tasks[t].pc \in SingleTimers
  /\ LET pc == tasks[t].pc
         w0 == [World(t) EXCEPT !.tk.pc = "-",
                                !.hist = IF pc \in SingleFades THEN stop_spotify_playback(@)
                                         ELSE @]
     IN \E w \in
          CASE pc = "oversleep"  -> SingleFrom("narrations", w0)
            [] pc = "duck"       -> SingleFrom("intro", [w0 EXCEPT !.tk.ducked = TRUE])
            [] pc = "bedfade"    -> SingleFrom("detail", w0)
            [] pc = "skipfade"   -> SingleFrom("trackend", w0)
            [] pc = "endfade"    -> SingleFrom("finished", w0)
            [] pc = "cancelfade" -> SingleFrom("trackend", w0)
            [] pc = "nfade"      -> SingleFrom("raise", w0)
            [] pc = "endsleep"   -> {[Finish(w0, "complete") EXCEPT
                                        !.flags = CancelEnd(w0.flags),
                                        !.hist = set_device_volume(@, FullVolume)]}
        : SingleCommit(t, w)
  /\ UNCHANGED <<sequence_lock, calls, stops>>

\* one round of _track_heartbeat, a task of its own: it writes "track" and
\* leaves its loop when skip_event is set or the play time is over
Heartbeat(t) ==
  /\ tasks[t].hb
  /\ \E over \in {ev.skip, ev.skip \/ tasks[t].pc = "endfade"} :
       Commit(t, [SinglePublish(World(t), "track") EXCEPT !.tk.hb = ~over])
  /\ UNCHANGED <<current_task, sequence_lock, calls, stops>>

\* CancelledError reaches the run at its suspension point.  play_narrations
\* fades and re-raises; play_track_with_skip fades and returns True, so the
\* run goes on; elsewhere, and inside the two handlers, it ends the task
\* one round of track_heartbeat (services/radio/heartbeat.py), the heartbeat
\* of the radio package, which has the signature of _track_heartbeat and
\* stands in its place here: on completion it marks the status stopped and
\* publishes idle
track_heartbeat(t) ==
  /\ tasks[t].hb
  /\ \E over \in {ev.skip, ev.skip \/ tasks[t].pc = "endfade"} :
       LET w1 == SinglePublish(World(t), "track")
           w2 == [w1 EXCEPT !.status = update_phase([@ EXCEPT !.is_playing = FALSE,
                                                              !.is_paused = FALSE,
                                                              !.stopped = TRUE],
                                                    "idle", "-")]
       IN Commit(t, [(IF over THEN w2 ELSE w1) EXCEPT !.tk.hb = ~over])
  /\ UNCHANGED <<current_task, sequence_lock, calls, stops>>

SingleCancel(t) ==
  /\ tasks[t].st = "cancelling"
  /\ tasks[t].kind = "single"
  /\ LET pc == tasks[t].pc
         w0 == [World(t) EXCEPT !.tk.st = "running", !.tk.pc = "-"]
     IN \E w \in
          (IF pc \in NarrPhases \cup {"bedfade", "duck"} THEN SingleFrom("nabort", w0)
           ELSE IF pc \in {"track", "skipfade", "endfade"}
                THEN Fade(w0, "cancelfade", "trackend")
                ELSE {Finish(w0, "cancelled")})
        : SingleCommit(t, w)
  /\ UNCHANGED <<sequence_lock, calls, stops>>

\* ───────────── specification ─────────────
Next ==
  \/ \E c \in TaskIds : StartCall(c)
  \/ \E c \in TaskIds : StartAcquire(c)
  \/ \E c \in TaskIds : StartSpawn(c)
  \/ \E t \in TaskIds : TaskStart(t)
  \/ \E t \in TaskIds : FetchReturn(t)
  \/ \E t \in TaskIds : TaskWake(t)
  \/ \E t \in TaskIds : CancelDeliver(t)
  \/ play_spotify
  \/ get_status
  \/ narration_finished
  \/ reset_playback_state
  \/ set_narration_done
  \/ set_track_done

Spec == Init /\ [][Next]_vars

\* the control surface: launches, stops and the flag-writing commands
NextCtl ==
  \/ \E c \in TaskIds : StartCall(c)
  \/ \E c \in TaskIds : StartAcquire(c)
  \/ \E c \in TaskIds : StartSpawn(c)
  \/ \E s \in StopIds : StopBegin(s)
  \/ \E s \in StopIds : StopEnd(s)
  \/ \E t \in TaskIds : TaskStart(t)
  \/ \E t \in TaskIds : FetchReturn(t)
  \/ \E t \in TaskIds : CancelDeliver(t)
  \/ pause
  \/ resume
  \/ start
  \/ reset_playback_state

CtlSpec == Init /\ [][NextCtl]_vars

\* the single start of a continuous run and its renderer, nothing cancelling
\* it; every step that can be taken is eventually taken
NextLive ==
  \/ \E c \in {1} : StartCall(c)
  \/ \E c \in {1} : StartSpawn(c)
  \/ \E t \in {1} : TaskStart(t)
  \/ \E t \in {1} : TaskWake(t)
  \/ narration_finished
  \/ set_track_done

LiveSpec ==
  /\ Init
  /\ [][NextLive]_vars
  /\ WF_vars(StartCall(1))
  /\ WF_vars(StartSpawn(1))
  /\ WF_vars(TaskStart(1))
  /\ WF_vars(TaskWake(1))
  /\ WF_vars(narration_finished)
  /\ WF_vars(set_track_done)

\* one run, its renderer, and the pause and resume commands
NextPause ==
  \/ \E c \in {1} : StartCall(c)
  \/ \E c \in {1} : StartSpawn(c)
  \/ \E t \in {1} : TaskStart(t)
  \/ \E t \in {1} : FetchReturn(t)
  \/ \E t \in {1} : TaskWake(t)
  \/ set_narration_done
  \/ set_track_done
  \/ pause
  \/ resume

PauseSpec == Init /\ [][NextPause]_vars

\* launches and the tasks they spawn while no completion signal ever
\* arrives; the event loop hands over the lock, delivers a cancellation and
\* lets the grace delay expire
NextLock ==
  \/ \E c \in TaskIds : StartCall(c)
  \/ \E c \in TaskIds : StartAcquire(c)
  \/ \E c \in TaskIds : StartSpawn(c)
  \/ \E t \in TaskIds : TaskStart(t)
  \/ \E t \in TaskIds : FetchReturn(t)
  \/ \E t \in TaskIds : CancelDeliver(t)

LockStep ==
  \/ \E c \in TaskIds : StartAcquire(c)
  \/ \E c \in TaskIds : StartSpawn(c)
  \/ \E t \in TaskIds : CancelDeliver(t)

LockSpec == Init /\ [][NextLock]_vars /\ WF_vars(LockStep)

\* one run for which no completion signal ever arrives: the client polls
\* the status and starts tracks, the event loop runs the task's steps and
\* the catalog answers or the fetch times out
NextQuiet ==
  \/ \E c \in {1} : StartCall(c)
  \/ \E c \in {1} : StartSpawn(c)
  \/ \E t \in {1} : TaskStart(t)
  \/ \E t \in {1} : FetchReturn(t)
  \/ get_status
  \/ play_spotify

QuietSpec ==
  Init /\ [][NextQuiet]_vars /\ WF_vars(StartSpawn(1) \/ TaskStart(1) \/ FetchReturn(1))

\* launches whose catalog fetch may never return, with the client polling
\* and starting tracks; timers expire, the lock is handed over and
\* cancellations are delivered whenever the event loop is free to run them
NextFetch ==
  \/ ~LoopBlocked /\ \E c \in TaskIds : StartCall(c)
  \/ ~LoopBlocked /\ \E c \in TaskIds : StartAcquire(c)
  \/ ~LoopBlocked /\ \E c \in TaskIds : StartSpawn(c)
  \/ ~LoopBlocked /\ \E t \in TaskIds : TaskStart(t)
  \/ ~LoopBlocked /\ \E t \in TaskIds : FetchHang(t)
  \/ ~LoopBlocked /\ \E t \in TaskIds : FetchTimeout(t)
  \/ ~LoopBlocked /\ \E t \in TaskIds : FetchReturn(t)
  \/ ~LoopBlocked /\ \E t \in TaskIds : CancelDeliver(t)
  \/ ~LoopBlocked /\ get_status
  \/ ~LoopBlocked /\ play_spotify

FetchStep ==
  /\ ~LoopBlocked
  /\ \/ \E c \in TaskIds : StartAcquire(c)
     \/ \E c \in TaskIds : StartSpawn(c)
     \/ \E t \in TaskIds : FetchTimeout(t)
     \/ \E t \in TaskIds : CancelDeliver(t)

FetchSpec == Init /\ [][NextFetch]_vars /\ WF_vars(FetchStep)

\* one single-track run with the stop and skip commands of its client;
\* timers expire, waits return and cancellations are delivered
NextSingle ==
  \/ \E c \in {1} : StartCall(c)
  \/ \E c \in {1} : StartSpawn(c)
  \/ \E s \in StopIds : StopBegin(s)
  \/ \E s \in StopIds : StopEnd(s)
  \/ \E t \in {1} : CancelDeliver(t)
  \/ \E t \in {1} : SingleStart(t)
  \/ \E t \in {1} : ClipPoll(t)
  \/ \E t \in {1} : ClipDone(t)
  \/ \E t \in {1} : TrackSkipped(t)
  \/ \E t \in {1} : TrackTimeout(t)
  \/ \E t \in {1} : TimerDone(t)
  \/ \E t \in {1} : Heartbeat(t)
  \/ \E t \in {1} : SingleCancel(t)
  \/ skip
  \/ narration_finished

SingleStep ==
  \/ StartSpawn(1)
  \/ \E s \in StopIds : StopEnd(s)
  \/ CancelDeliver(1)
  \/ SingleStart(1)
  \/ ClipPoll(1)
  \/ ClipDone(1)
  \/ TrackSkipped(1)
  \/ TrackTimeout(1)
  \/ TimerDone(1)
  \/ SingleCancel(1)

SingleSpec == Init /\ [][NextSingle]_vars /\ WF_vars(SingleStep)

\* ───────────── the clocks of PlaybackStatus ─────────────
\* elapsed_seconds and duration_seconds in ticks; percent_complete is the
\* quotient num/den that the code computes in floating point
Frac(n, d) == [num |-> n, den |-> d]

Min(a, b) == IF a <= b THEN a ELSE b

\* the branch of update_phase that is taken when a context dict is passed:
\* the context of the callers carries elapsed_seconds and duration_seconds,
\* not the elapsedSeconds and durationSeconds that are looked up, so the
\* clocks stay and the percentage is computed from them
Recompute(st) ==
  [st EXCEPT !.percent_complete =
     IF st.duration_seconds > 0
     THEN IF st.elapsed_seconds >= st.duration_seconds
          THEN Frac(100, 1)
          ELSE Frac(100 * st.elapsed_seconds, st.duration_seconds)
     ELSE Frac(0, 1)]

\* update_phase with elapsed_seconds, duration_seconds and
\* percent_complete among its keyword arguments
SetClock(st, e, d, p) ==
  [st EXCEPT !.elapsed_seconds = e, !.duration_seconds = d, !.percent_complete = p]

\* the status with its clocks, and the clock of the machine with what the
\* running heartbeat took from it: beat is the heartbeat that runs
ClockInit ==
  /\ flags = [is_playing |-> FALSE, is_paused |-> FALSE, stopped |-> TRUE,
              cancel_requested |-> FALSE]
  /\ status = [is_playing |-> FALSE, is_paused |-> FALSE, stopped |-> TRUE,
               cancel_requested |-> FALSE, sequence_done |-> TRUE,
               phase |-> "idle", voice_style |-> "-", bed_playing |-> FALSE,
               elapsed_seconds |-> 0, duration_seconds |-> 0,
               percent_complete |-> Frac(0, 1)]
  /\ current_task = 0
  /\ sequence_lock = 0
  /\ calls = [c \in TaskIds |-> "idle"]
  /\ stops = [s \in StopIds |-> "idle"]
  /\ tasks = [t \in TaskIds |-> NoTask]
  /\ ev = [narration_done |-> FALSE, track_done |-> FALSE, skip |-> FALSE]
  /\ hist = [now |-> 0, start |-> 0, total |-> 0, beat |-> "-"]

Tick ==
  /\ hist.now < MaxTime
  /\ hist' = [hist EXCEPT !.now = @ + 1]
  /\ UNCHANGED <<flags, status, current_task, sequence_lock, calls, stops, tasks, ev>>

\* safe_play has the clip and its duration: it publishes the phase with
\* zeroed clocks and starts _run_progress_heartbeat
ClipInit ==
  /\ hist.beat = "-"
  /\ \E ph \in NarrPhases, d \in 0..MaxSecs, vs \in Voices :
       /\ status' = Recompute(SetClock([update_phase(status, ph, vs) EXCEPT
                                          !.is_playing = TRUE, !.is_paused = FALSE,
                                          !.stopped = FALSE],
                                       0, d, Frac(0, 1)))
       /\ hist' = [hist EXCEPT !.beat = "narration", !.start = hist.now, !.total = d]
  /\ UNCHANGED <<flags, current_task, sequence_lock, calls, stops, tasks, ev>>

\* one round of _run_progress_heartbeat
ProgressBeat ==
  /\ hist.beat = "narration"
  /\ LET elapsed == hist.now - hist.start
         duration == hist.total
         percent == IF duration > 0 THEN Frac(Min(elapsed, duration), duration)
                    ELSE Frac(0, 1)
     IN /\ status' = SetClock(status,
                              IF duration > 0 THEN Min(elapsed, duration) ELSE elapsed,
                              duration, percent)
        /\ hist' = [hist EXCEPT !.beat = IF duration > 0 /\ elapsed >= duration
                                         THEN "clipover" ELSE @]
  /\ UNCHANGED <<flags, current_task, sequence_lock, calls, stops, tasks, ev>>

\* the clip has played: safe_play writes the final state and cancels the
\* heartbeat
ClipFinal ==
  /\ hist.beat \in {"narration", "clipover"}
  /\ status' = SetClock(status, hist.total, hist.total,
                        IF hist.total > 0 THEN Frac(1, 1) ELSE Frac(0, 1))
  /\ hist' = [hist EXCEPT !.beat = "-"]
  /\ UNCHANGED <<flags, current_task, sequence_lock, calls, stops, tasks, ev>>

\* play_track_with_skip up to the start of _track_heartbeat;
\* compute_play_seconds is positive
TrackInit ==
  /\ hist.beat = "-"
  /\ \E play_secs \in 1..MaxSecs :
       /\ status' = Recompute(update_phase(SetClock(mark_playing(status), 0, play_secs,
                                                    Frac(0, 1)),
                                           "track", "-"))
       /\ hist' = [hist EXCEPT !.beat = "track", !.start = hist.now, !.total = play_secs]
  /\ UNCHANGED <<flags, current_task, sequence_lock, calls, stops, tasks, ev>>

\* one round of _track_heartbeat
TrackBeat ==
  /\ hist.beat = "track"
  /\ LET elapsed == hist.now - hist.start
         total_secs == hist.total
     IN /\ status' = Recompute(update_phase(SetClock(status, elapsed, total_secs,
                                                     Frac(elapsed, total_secs)),
                                            "track", "-"))
        /\ hist' = [hist EXCEPT !.beat = IF elapsed >= total_secs THEN "trackover" ELSE @]
  /\ UNCHANGED <<flags, current_task, sequence_lock, calls, stops, tasks, ev>>

\* the track has played: play_track_with_skip publishes track_finished
TrackFinished ==
  /\ hist.beat \in {"track", "trackover"}
  /\ hist.now - hist.start >= hist.total
  /\ status' = Recompute(update_phase(status, "track_finished", "-"))
  /\ hist' = [hist EXCEPT !.beat = "-"]
  /\ UNCHANGED <<flags, current_task, sequence_lock, calls, stops, tasks, ev>>

NextClock ==
  \/ Tick
  \/ ClipInit
  \/ ProgressBeat
  \/ ClipFinal
  \/ TrackInit
  \/ TrackBeat
  \/ TrackFinished

ClockSpec == ClockInit /\ [][NextClock]_vars

\* ───────────── the ordering functions on their own ─────────────
OrderRanks == 1..MaxRank

\* lists of rows with distinct ranks, in any order
RowLists == UNION {Shuffles(S) : S \in SUBSET OrderRanks}

\* a list of rows and a mode, not yet ordered: rows is what the caller
\* passed, list the content of the list object it passed
OrderInit ==
  /\ flags = [is_playing |-> FALSE, is_paused |-> FALSE, stopped |-> TRUE,
              cancel_requested |-> FALSE]
  /\ status = [is_playing |-> FALSE, is_paused |-> FALSE, stopped |-> TRUE,
               cancel_requested |-> FALSE, sequence_done |-> TRUE,
               phase |-> "idle", voice_style |-> "-", bed_playing |-> FALSE]
  /\ current_task = 0
  /\ sequence_lock = 0
  /\ calls = [c \in TaskIds |-> "idle"]
  /\ stops = [s \in StopIds |-> "idle"]
  /\ tasks = [t \in TaskIds |-> NoTask]
  /\ ev = [narration_done |-> FALSE, track_done |-> FALSE, skip |-> FALSE]
  /\ \E rows \in RowLists, mode \in Modes :
       hist = [rows |-> rows, list |-> rows, mode |-> mode, by |-> "-", out |-> <<>>]

\* rows.sort, rows.reverse and random.shuffle work in place: the list
\* object that was passed holds the result
InPlace(out) == out

\* the decade runner orders the rows it was given
OrderDecade ==
  /\ hist.by = "-"
  /\ \E out \in DecadeOrder(hist.rows, hist.mode) :
       hist' = [hist EXCEPT !.by = "decade", !.out = out, !.list = InPlace(out)]
  /\ UNCHANGED <<flags, status, current_task, sequence_lock, calls, stops, tasks, ev>>

\* the collection runners order in line the rows of their query, which
\* come ORDER BY ranking
OrderCollection ==
  /\ hist.by = "-"
  /\ hist.rows = SortRows(hist.rows)
  /\ \E out \in OrderRows(hist.rows, hist.mode) :
       hist' = [hist EXCEPT !.by = "collection", !.out = out, !.list = InPlace(out)]
  /\ UNCHANGED <<flags, status, current_task, sequence_lock, calls, stops, tasks, ev>>

NextOrder ==
  \/ OrderDecade
  \/ OrderCollection

OrderSpec == OrderInit /\ [][NextOrder]_vars

\* the single-track run with the heartbeat of the radio package
NextRadio ==
  \/ \E c \in {1} : StartCall(c)
  \/ \E c \in {1} : StartSpawn(c)
  \/ \E s \in StopIds : StopBegin(s)
  \/ \E s \in StopIds : StopEnd(s)
  \/ \E t \in {1} : CancelDeliver(t)
  \/ \E t \in {1} : SingleStart(t)
  \/ \E t \in {1} : ClipPoll(t)
  \/ \E t \in {1} : ClipDone(t)
  \/ \E t \in {1} : TrackSkipped(t)
  \/ \E t \in {1} : TrackTimeout(t)
  \/ \E t \in {1} : TimerDone(t)
  \/ \E t \in {1} : track_heartbeat(t)
  \/ \E t \in {1} : SingleCancel(t)
  \/ skip
  \/ narration_finished

RadioSpec == Init /\ [][NextRadio]_vars /\ WF_vars(SingleStep)

\* one run whose play flags and assets are known from its first step on,
\* with the renderer's completion signals
NextAsset ==
  \/ \E c \in {1} : StartCall(c)
  \/ \E c \in {1} : StartSpawn(c)
  \/ \E t \in {1} : ItemStart(t)
  \/ \E t \in {1} : FetchReturn(t)
  \/ \E t \in {1} : TaskWake(t)
  \/ set_narration_done
  \/ set_track_done

AssetSpec == Init /\ [][NextAsset]_vars

\* ───────────── the Spotify session endpoints (isaiah/) ─────────────
\* The clock is hist.now.  hist holds the two Supabase tables, the cookie
\* each browser keeps and the response of the request served last.
SpotifyIds == 1..MaxUsers

JWT_SECRET == "secret"

\* 7 days, in ticks
JWT_EXP_DELTA_SECONDS == 2

\* expires_in of the tokens Spotify hands out, in ticks
ExpiresIn == 1

\* HS256 over the payload with a key
Sign(user_id, exp, key) == <<key, user_id, exp>>

\* Cookie(None): no access_token cookie in the request
NoCookie == [user_id |-> 0, exp |-> 0, sig |-> <<>>]

\* None, as decode_jwt_token returns it
NoPayload == [user_id |-> 0, exp |-> 0]

create_jwt_token(user_id, now) ==
  [user_id |-> user_id, exp |-> now + JWT_EXP_DELTA_SECONDS,
   sig |-> Sign(user_id, now + JWT_EXP_DELTA_SECONDS, JWT_SECRET)]

decode_unverified(token, now) ==
  IF token = NoCookie THEN NoPayload
  ELSE IF token.exp <= now THEN NoPayload
  ELSE [user_id |-> token.user_id, exp |-> token.exp]

\* jwt.decode: a token that is no string, a wrong signature and an exp in
\* the past all end in None
decode_jwt_token(token, now) ==
  IF token = NoCookie THEN NoPayload
  ELSE IF token.sig # Sign(token.user_id, token.exp, JWT_SECRET) THEN NoPayload
  ELSE IF token.exp <= now THEN NoPayload
  ELSE [user_id |-> token.user_id, exp |-> token.exp]

\* a Spotify access token: the account it was issued for and when
NoToken == [owner |-> 0, at |-> 0]

SpotifyToken(owner, now) == [owner |-> owner, at |-> now]

\* no row in spotify_tokens
NoTokens == [access_token |-> NoToken, refresh_token |-> 0, expires_at |-> 0]

NoResp ==
  [route |-> "-", code |-> 0, location |-> "-", set_cookie |-> NoCookie,
   httponly |-> FALSE, token |-> NoToken, looked |-> 0, cookie |-> NoCookie,
   who |-> 0, product |-> "-"]

AuthInit ==
  /\ flags = [is_playing |-> FALSE, is_paused |-> FALSE, stopped |-> TRUE,
              cancel_requested |-> FALSE]
  /\ status = [is_playing |-> FALSE, is_paused |-> FALSE, stopped |-> TRUE,
               cancel_requested |-> FALSE, sequence_done |-> TRUE,
               phase |-> "idle", voice_style |-> "-", bed_playing |-> FALSE]
  /\ current_task = 0
  /\ sequence_lock = 0
  /\ calls = [c \in TaskIds |-> "idle"]
  /\ stops = [s \in StopIds |-> "idle"]
  /\ tasks = [t \in TaskIds |-> NoTask]
  /\ ev = [narration_done |-> FALSE, track_done |-> FALSE, skip |-> FALSE]
  /\ hist = [now |-> 0,
             topspot_users |-> [p \in SpotifyIds |-> 0],
             spotify_tokens |-> [u \in SpotifyIds |-> NoTokens],
             jar |-> [p \in SpotifyIds |-> NoCookie],
             resp |-> NoResp]

AuthFrame == UNCHANGED <<flags, status, current_task, sequence_lock, calls, stops, tasks, ev>>

\* time passes between two requests
AuthTick ==
  /\ hist.now < MaxTime
  /\ hist' = [hist EXCEPT !.now = @ + 1, !.resp = NoResp]
  /\ AuthFrame

\* the id of the topspot_users row of a Spotify account: the row found,
\* or the one the insert creates
get_or_create_topspot_user(h, p) ==
  IF h.topspot_users[p] # 0 THEN h.topspot_users[p]
  ELSE Cardinality({q \in SpotifyIds : h.topspot_users[q] # 0}) + 1

PremiumGateOpen(product) == TRUE

\* is_premium of spotify_callback
PremiumGate(product) == product = "premium"

\* GET /spotify/callback for the account p, whose profile carries product
spotify_callback ==
  /\ \E p \in SpotifyIds, product \in {"premium", "free", "open"}, code \in BOOLEAN :
       LET r0  == [NoResp EXCEPT !.route = "callback", !.who = p, !.product = product]
           uid == get_or_create_topspot_user(hist, p)
           h1  == [hist EXCEPT !.topspot_users[p] = uid]
           h2  == [h1 EXCEPT !.spotify_tokens[uid] =
                     [access_token |-> SpotifyToken(p, hist.now), refresh_token |-> p,
                      expires_at |-> hist.now + ExpiresIn]]
           jwt == create_jwt_token(uid, hist.now)
       IN IF ~code
          THEN hist' = [hist EXCEPT !.resp = [r0 EXCEPT !.code = 400]]
          ELSE IF ~PremiumGate(product)
          THEN hist' = [hist EXCEPT !.resp = [r0 EXCEPT !.code = 307,
                                                !.location = "not-spotify-premium"]]
          ELSE \* the insert fails
               \/ /\ hist.topspot_users[p] = 0
                  /\ hist' = [hist EXCEPT !.resp = [r0 EXCEPT !.code = 500]]
               \* the upsert of the tokens fails
               \/ hist' = [h1 EXCEPT !.resp = [r0 EXCEPT !.code = 500]]
               \/ \E to \in {"create-account", "dashboard"} :
                    hist' = [h2 EXCEPT !.jar[p] = jwt,
                                       !.resp = [r0 EXCEPT !.code = 307, !.location = to,
                                                           !.set_cookie = jwt,
                                                           !.httponly = TRUE]]
  /\ AuthFrame

\* what a client can send as its access_token cookie: nothing, the cookie
\* a browser keeps, such a cookie with another user_id in its payload, or
\* a token signed with a key that is not the server's
Presentable(h) ==
  {NoCookie}
    \cup {h.jar[p] : p \in SpotifyIds}
    \cup {[h.jar[p] EXCEPT !.user_id = u] : p \in {q \in SpotifyIds : h.jar[q] # NoCookie},
                                           u \in SpotifyIds}
    \cup {[user_id |-> u, exp |-> MaxTime + 1, sig |-> Sign(u, MaxTime + 1, "guess")] :
            u \in SpotifyIds}

\* spotify_token and spotify_sdk_token, which have the same body
TokenEndpoint(route) ==
  \E cookie \in Presentable(hist) :
       LET payload == decode_jwt_token(cookie, hist.now)
           r0      == [NoResp EXCEPT !.route = route, !.cookie = cookie]
           user_id == payload.user_id
           record  == hist.spotify_tokens[user_id]
           r1      == [r0 EXCEPT !.looked = user_id]
           fresh   == SpotifyToken(record.refresh_token, hist.now)
       IN IF payload = NoPayload
          THEN hist' = [hist EXCEPT !.resp = [r0 EXCEPT !.code = 401]]
          \* get_valid_access_token
          ELSE IF record = NoTokens
          THEN hist' = [hist EXCEPT !.resp = [r1 EXCEPT !.code = 500]]
          ELSE IF record.expires_at < hist.now
          THEN \* refresh_spotify_token raises
               \/ hist' = [hist EXCEPT !.resp = [r1 EXCEPT !.code = 500]]
               \/ hist' = [hist EXCEPT
                             !.spotify_tokens[user_id] =
                                [@ EXCEPT !.access_token = fresh,
                                          !.expires_at = hist.now + ExpiresIn],
                             !.resp = [r1 EXCEPT !.code = 200, !.token = fresh]]
          ELSE hist' = [hist EXCEPT !.resp = [r1 EXCEPT !.code = 200,
                                                       !.token = record.access_token]]

spotify_token ==
  /\ TokenEndpoint("/spotify/token")
  /\ AuthFrame

spotify_sdk_token ==
  /\ TokenEndpoint("/spotify/sdk-token")
  /\ AuthFrame

NextAuth ==
  \/ AuthTick
  \/ spotify_callback
  \/ spotify_token
  \/ spotify_sdk_token

AuthSpec == AuthInit /\ [][NextAuth]_vars


\* ───────────── the rank a single-rank run publishes, and /next ─────────────
\* One decade/genre (and one collection) whose catalog holds the ranks
\* hist.catalog.  flags carries mode, context and current_rank as well,
\* status carries current_rank; 0 is None.  hist.run is the sequence task
\* that is current: a launch cancels and replaces it, the transition that
\* Spec follows step by step.
NoRun ==
  [kind |-> "-", start |-> 0, end |-> 0, mode |-> "-", pc |-> "-", rank |-> 0,
   last |-> "-", pubs |-> {}]

NewRun(kind, start_rank, end_rank, mode) ==
  [NoRun EXCEPT !.kind = kind, !.start = start_rank, !.end = end_rank, !.mode = mode,
                !.pc = "spawned"]

NoAnswer == [route |-> "-", status |-> "-", from |-> 0, to |-> 0]

RankInit ==
  /\ flags = [is_playing |-> FALSE, is_paused |-> FALSE, stopped |-> TRUE,
              cancel_requested |-> FALSE, mode |-> "None", context |-> "None",
              current_rank |-> 0]
  /\ status = [is_playing |-> FALSE, is_paused |-> FALSE, stopped |-> TRUE,
               cancel_requested |-> FALSE, sequence_done |-> TRUE,
               phase |-> "idle", voice_style |-> "-", bed_playing |-> FALSE,
               current_rank |-> 0]
  /\ current_task = 0
  /\ sequence_lock = 0
  /\ calls = [c \in TaskIds |-> "idle"]
  /\ stops = [s \in StopIds |-> "idle"]
  /\ tasks = [t \in TaskIds |-> NoTask]
  /\ ev = [narration_done |-> FALSE, track_done |-> FALSE, skip |-> FALSE]
  /\ \E catalog \in SUBSET Ranks :
       hist = [catalog |-> catalog, run |-> NoRun, resp |-> NoAnswer]

RankFrame == UNCHANGED <<current_task, sequence_lock, calls, stops, tasks, ev>>

\* start_new_sequence from its entry to the spawn: the flags it leaves
Launched(fl) ==
  [fl EXCEPT !.is_playing = TRUE, !.stopped = FALSE, !.is_paused = FALSE,
             !.cancel_requested = FALSE]

\* GET /supabase/decade-genre/play-sequence
play_sequence_decade_genre ==
  /\ \E start_rank \in Ranks, end_rank \in Ranks, mode \in Modes :
       hist' = [hist EXCEPT !.run = NewRun("decade", start_rank, end_rank, mode),
                            !.resp = [NoAnswer EXCEPT !.route = "play-sequence",
                                                      !.status = "started"]]
  /\ flags' = Launched(flags)
  /\ UNCHANGED status
  /\ RankFrame

\* GET /supabase/collections/play-collection-sequence, single-rank
play_collection_sequence ==
  /\ \E start_rank \in Ranks, end_rank \in Ranks, mode \in Modes :
       hist' = [hist EXCEPT !.run = NewRun("collection", start_rank, end_rank, mode),
                            !.resp = [NoAnswer EXCEPT !.route = "play-collection-sequence",
                                                      !.status = "started"]]
  /\ flags' = Launched(flags)
  /\ UNCHANGED status
  /\ RankFrame

\* the rows of the query: ranking between start_rank and end_rank,
\* ORDER BY ranking
RowsInRange(catalog, start_rank, end_rank) ==
  Ascending({r \in catalog : r >= start_rank /\ r <= end_rank})

\* an update_phase call with current_rank among its keyword arguments
PublishRank(st, ph, rank) == [update_phase(st, ph, st.voice_style) EXCEPT !.current_rank = rank]

\* the first run of the task to its first suspension
RunBegin ==
  /\ hist.run.pc = "spawned"
  /\ CASE hist.run.kind = "decade" ->
            \* run_decade_genre_sequence up to the await of the rows
            /\ flags' = [flags EXCEPT !.is_playing = TRUE, !.stopped = FALSE,
                                      !.cancel_requested = FALSE,
                                      !.current_rank = hist.run.start,
                                      !.mode = "decade_genre"]
            /\ status' = PublishRank(mark_playing([status EXCEPT !.stopped = FALSE,
                                                                 !.cancel_requested = FALSE,
                                                                 !.bed_playing = FALSE]),
                                     "loading", hist.run.start)
            /\ hist' = [hist EXCEPT !.run.pc = "loading", !.resp = NoAnswer]
       [] hist.run.kind = "collection" ->
            \* run_collection_sequence fetches and orders without a suspension
            LET rows == RowsInRange(hist.catalog, hist.run.start, hist.run.end)
            IN IF rows = <<>>
               THEN /\ hist' = [hist EXCEPT !.run.pc = "done", !.resp = NoAnswer]
                    /\ UNCHANGED <<flags, status>>
               ELSE /\ \E out \in OrderRows(rows, hist.run.mode) :
                         hist' = [hist EXCEPT !.run.pc = "publishing",
                                              !.run.rank = HeadOnly(out)[1],
                                              !.resp = NoAnswer]
                    /\ status' = mark_playing(status)
                    /\ UNCHANGED flags
       [] hist.run.kind = "one" ->
            \* play_one_server_side: the call of run_decade_genre_sequence
            \* with text_intro, text_detail and text_artist_description
            \* raises TypeError, which _run_sequence_guarded logs
            /\ flags' = [flags EXCEPT !.mode = hist.run.mode, !.context = "decade/genre",
                                      !.current_rank = hist.run.start]
            /\ hist' = [hist EXCEPT !.run.pc = "crashed", !.resp = NoAnswer]
            /\ UNCHANGED status
  /\ RankFrame

\* the decade runner has its rows: it orders them, takes rows[0] and
\* publishes prelude
RunFetched ==
  /\ hist.run.pc = "loading"
  /\ LET rows == RowsInRange(hist.catalog, hist.run.start, hist.run.end)
     IN IF rows = <<>>
        THEN /\ hist' = [hist EXCEPT !.run.pc = "done", !.resp = NoAnswer]
             /\ flags' = Teardown(flags)
             /\ UNCHANGED status
        ELSE \E out \in DecadeOrder(rows, hist.run.mode) :
               LET rank == HeadOnly(out)[1]
               IN /\ hist' = [hist EXCEPT !.run.pc = "publishing", !.run.rank = rank,
                                          !.run.last = "prelude",
                                          !.run.pubs = @ \cup {rank},
                                          !.resp = NoAnswer]
                  /\ flags' = [flags EXCEPT !.current_rank = rank]
                  /\ status' = [PublishRank(status, "prelude", rank) EXCEPT !.is_playing = TRUE]
  /\ RankFrame

RankPhases == <<"prelude", "intro", "detail", "artist", "track">>

RankIdx(ph) == IF ph = "-" THEN 0 ELSE CHOOSE i \in 1..5 : RankPhases[i] = ph

\* the run publishes the next phase that is enabled and has its asset
RunPublish ==
  /\ hist.run.pc = "publishing"
  /\ \E i \in 2..5 :
       /\ i > RankIdx(hist.run.last)
       /\ status' = PublishRank(status, RankPhases[i], hist.run.rank)
       /\ hist' = [hist EXCEPT !.run.last = RankPhases[i],
                               !.run.pubs = @ \cup {status'.current_rank},
                               !.resp = NoAnswer]
  /\ UNCHANGED flags
  /\ RankFrame

\* the run returns; the decade runner has a finally block
RunReturn ==
  /\ hist.run.pc = "publishing"
  /\ hist' = [hist EXCEPT !.run.pc = "done", !.resp = NoAnswer]
  /\ flags' = IF hist.run.kind = "decade" THEN Teardown(flags) ELSE flags
  /\ UNCHANGED status
  /\ RankFrame

\* the index arithmetic of /next on the ranks of the catalog
NextTargets(ranks, current_rank, mode) ==
  LET idx == CHOOSE i \in 1..Len(ranks) : ranks[i] = current_rank
  IN CASE mode = "count_up"   -> IF idx + 1 <= Len(ranks) THEN {ranks[idx + 1]} ELSE {}
       [] mode = "count_down" -> IF idx - 1 >= 1 THEN {ranks[idx - 1]} ELSE {}
       [] OTHER               -> {ranks[i] : i \in 1..Len(ranks)} \ {current_rank}

\* POST /supabase/decade-genre/next
play_next_decade_genre ==
  /\ LET r0    == [NoAnswer EXCEPT !.route = "next"]
         mode  == IF flags.mode = "None" THEN "count_up" ELSE flags.mode
         ranks == Ascending(hist.catalog)
     IN IF flags.context = "None" \/ flags.current_rank = 0
        THEN /\ hist' = [hist EXCEPT !.resp = [r0 EXCEPT !.status = "error"]]
             /\ UNCHANGED flags
        ELSE IF ranks = <<>> \/ flags.current_rank \notin hist.catalog
        THEN /\ hist' = [hist EXCEPT !.resp = [r0 EXCEPT !.status = "error"]]
             /\ UNCHANGED flags
        ELSE IF NextTargets(ranks, flags.current_rank, mode) = {}
        THEN /\ hist' = [hist EXCEPT !.resp = [r0 EXCEPT !.status = "done"]]
             /\ UNCHANGED flags
        ELSE /\ \E next_rank \in NextTargets(ranks, flags.current_rank, mode) :
                  hist' = [hist EXCEPT
                             !.run = NewRun("one", next_rank, next_rank, mode),
                             !.resp = [r0 EXCEPT !.status = "playing-next",
                                                 !.from = flags.current_rank,
                                                 !.to = next_rank]]
             /\ flags' = Launched(flags)
  /\ UNCHANGED status
  /\ RankFrame

NextRank ==
  \/ play_sequence_decade_genre
  \/ play_collection_sequence
  \/ RunBegin
  \/ RunFetched
  \/ RunPublish
  \/ RunReturn
  \/ play_next_decade_genre

RankSpec == RankInit /\ [][NextRank]_vars

\* ───────────── safe_play, the clip task (playback_helpers.py) ─────────────
\* hist.clip is the task that _run_voice_clip_with_skip creates for
\* safe_play, for a kind the backend plays itself and a remote audio ref:
\* where it is suspended, the attempt it is in, its progress heartbeat,
\* a cancel() of the task that is not yet delivered, and what it returned.
SUPA_FETCH_RETRIES == 3

NoClip ==
  [pc |-> "idle", kind |-> "-", attempt |-> 0, hb |-> "none", cancel |-> FALSE,
   result |-> "-", consumed |-> FALSE, then |-> "-"]

\* before the clip the status is as at start-up, or as mark_playing of an
\* earlier sequence has left it
PlayInit ==
  /\ flags = [is_playing |-> FALSE, is_paused |-> FALSE, stopped |-> TRUE,
              cancel_requested |-> FALSE]
  /\ \E playing \in BOOLEAN :
       status = [is_playing |-> playing, is_paused |-> FALSE, stopped |-> ~playing,
                 cancel_requested |-> FALSE, sequence_done |-> ~playing,
                 phase |-> "idle", voice_style |-> "-", bed_playing |-> FALSE]
  /\ current_task = 0
  /\ sequence_lock = 0
  /\ calls = [c \in TaskIds |-> "idle"]
  /\ stops = [s \in StopIds |-> "idle"]
  /\ tasks = [t \in TaskIds |-> NoTask]
  /\ ev = [narration_done |-> FALSE, track_done |-> FALSE, skip |-> FALSE]
  /\ hist = [clip |-> NoClip] @@ InitHist

ClipWorld == [status |-> status, ev |-> ev, clip |-> hist.clip]

ClipCommit(w) ==
  /\ status' = w.status
  /\ ev' = w.ev
  /\ hist' = [hist EXCEPT !.clip = w.clip]
  /\ UNCHANGED <<flags, current_task, sequence_lock, calls, stops, tasks>>

\* _respect_user_controls of playback_helpers raises CancelledError
HelperRaises(st) == st.stopped

\* _update_state_for_play and the update_phase that initialises the clocks
UpdateStateForPlay(st, kind) ==
  [update_phase(st, kind, "before") EXCEPT !.is_playing = TRUE, !.is_paused = FALSE,
                                           !.stopped = FALSE]

ClipReturn(w, res) ==
  [w EXCEPT !.clip.pc = "returned", !.clip.result = res, !.clip.cancel = FALSE,
            !.clip.then = "-"]

\* the end of the loop body after `except Exception`: the backoff sleep,
\* or the loop is exhausted and safe_play gives up
ClipRetry(w) ==
  IF w.clip.attempt < SUPA_FETCH_RETRIES
  THEN [w EXCEPT !.clip.pc = "backoff", !.clip.then = "-"]
  ELSE ClipReturn(w, "False")

\* what follows the finally block
ClipAfter(w, then) == IF then = "retry" THEN ClipRetry(w) ELSE ClipReturn(w, then)

\* finally: heartbeat_task.cancel(), await heartbeat_task
ClipFinally(w, then) ==
  IF w.clip.hb = "running"
  THEN [w EXCEPT !.clip.hb = "cancelling", !.clip.pc = "hbwait", !.clip.then = then]
  ELSE ClipAfter(w, then)

\* the top of the loop body up to the download
ClipAttempt(w) ==
  IF HelperRaises(w.status)
  THEN ClipReturn(w, "False")
  ELSE [w EXCEPT !.status = UpdateStateForPlay(@, w.clip.kind), !.clip.pc = "download"]

\* one pass of the cooperative loop while play_task is not done
ClipLoop(w) ==
  IF HelperRaises(w.status)
  THEN ClipFinally(w, "False")
  ELSE IF w.ev.skip
       THEN [w EXCEPT !.ev.skip = EventClear(@), !.clip.consumed = TRUE,
                      !.clip.pc = "skipwait"]
       ELSE [w EXCEPT !.clip.pc = "playing"]

\* safe_play is called: it takes _play_lock and enters the first attempt
safe_play ==
  /\ hist.clip.pc \in {"idle", "returned"}
  /\ \E kind \in {"detail", "artist"} :
       ClipCommit(ClipAttempt([ClipWorld EXCEPT
                                 !.clip = [NoClip EXCEPT !.kind = kind, !.attempt = 1]]))

\* the download ends: with an error, or with the bytes of the clip, and
\* then the heartbeat and the player are started
DownloadReturn ==
  /\ hist.clip.pc = "download"
  /\ ~hist.clip.cancel
  /\ \/ ClipCommit(ClipRetry(ClipWorld))
     \/ ClipCommit(ClipLoop([ClipWorld EXCEPT
                               !.status = UpdateStateForPlay(@, hist.clip.kind),
                               !.clip.hb = "running"]))

\* the loop wakes from its sleep and finds a skip or a stop
PlayPoll ==
  /\ hist.clip.pc = "playing"
  /\ ~hist.clip.cancel
  /\ HelperRaises(status) \/ ev.skip
  /\ ClipCommit(ClipLoop(ClipWorld))

\* the player has ended: with rc 0 the final clocks are written and False
\* is returned, otherwise RuntimeError leads to the next attempt
PlayDone ==
  /\ hist.clip.pc = "playing"
  /\ ~hist.clip.cancel
  /\ \/ ClipCommit(ClipFinally([ClipWorld EXCEPT
                                  !.status = update_phase(@, hist.clip.kind, @.voice_style)],
                               "False"))
     \/ ClipCommit(ClipFinally(ClipWorld, "retry"))

\* the cancelled player has ended: return True, through finally
SkipWaitDone ==
  /\ hist.clip.pc = "skipwait"
  /\ ClipCommit(ClipFinally([ClipWorld EXCEPT !.clip.cancel = FALSE], "True"))

\* one round of _run_progress_heartbeat: it ends when it is cancelled,
\* when its checkpoint raises or when the duration is over
HeartbeatRound ==
  /\ hist.clip.hb \in {"running", "cancelling"}
  /\ IF hist.clip.hb = "cancelling" \/ HelperRaises(status)
     THEN ClipCommit([ClipWorld EXCEPT !.clip.hb = "done"])
     ELSE \E over \in BOOLEAN :
            ClipCommit([ClipWorld EXCEPT
                          !.status = update_phase(@, hist.clip.kind, @.voice_style),
                          !.clip.hb = IF over THEN "done" ELSE "running"])

\* await heartbeat_task returns; a cancellation that arrives here is
\* suppressed
HeartbeatAwaited ==
  /\ hist.clip.pc = "hbwait"
  /\ hist.clip.hb = "done"
  /\ ClipCommit(ClipAfter([ClipWorld EXCEPT !.clip.cancel = FALSE], hist.clip.then))

\* the backoff sleep is over: next attempt
BackoffDone ==
  /\ hist.clip.pc = "backoff"
  /\ ~hist.clip.cancel
  /\ ClipCommit(ClipAttempt([ClipWorld EXCEPT !.clip.attempt = @ + 1]))

\* play_task.cancel() in _run_voice_clip_with_skip
ClipCancel ==
  /\ hist.clip.pc \in {"download", "playing", "skipwait", "hbwait", "backoff"}
  /\ ~hist.clip.cancel
  /\ ClipCommit([ClipWorld EXCEPT !.clip.cancel = TRUE])

\* the backoff sleep stands after the try statement: CancelledError
\* leaves safe_play
CancelInBackoff(w) == ClipReturn(w, "CancelledError")

\* CancelledError is thrown into safe_play where it is suspended
ClipCancelled ==
  /\ hist.clip.cancel
  /\ hist.clip.pc \in {"download", "playing", "backoff"}
  /\ ClipCommit(CASE hist.clip.pc = "download" -> ClipReturn(ClipWorld, "False")
                  [] hist.clip.pc = "playing"  -> ClipFinally(ClipWorld, "False")
                  [] hist.clip.pc = "backoff"  -> CancelInBackoff(ClipWorld))

NextPlay ==
  \/ safe_play
  \/ DownloadReturn
  \/ PlayPoll
  \/ PlayDone
  \/ SkipWaitDone
  \/ HeartbeatRound
  \/ HeartbeatAwaited
  \/ BackoffDone
  \/ ClipCancel
  \/ ClipCancelled
  \/ skip
  \/ reset_playback_state

PlaySpec == PlayInit /\ [][NextPlay]_vars

\* ─── the narration lock of radio_runtime (NarrSpec) ───
\* _narration_lock = asyncio.Lock(): closed or open, and the queue of the
\* futures its waiters are suspended on
NoLock == [locked |-> FALSE, waiters |-> <<>>]

\* a task that may call play_narrations: where it is, whether it had to
\* wait for the lock, a task.cancel() not yet delivered, and how it left
NoCaller == [pc |-> "idle", waited |-> FALSE, cancel |-> FALSE, exit |-> "-"]

NarrInit ==
  /\ flags = [is_playing |-> FALSE, is_paused |-> FALSE, stopped |-> TRUE,
              cancel_requested |-> FALSE]
  /\ status = [is_playing |-> FALSE, is_paused |-> FALSE, stopped |-> TRUE,
               cancel_requested |-> FALSE, sequence_done |-> TRUE,
               phase |-> "idle", voice_style |-> "-", bed_playing |-> FALSE]
  /\ current_task = 0
  /\ sequence_lock = 0
  /\ calls = [c \in TaskIds |-> "idle"]
  /\ stops = [s \in StopIds |-> "idle"]
  /\ tasks = [t \in TaskIds |-> NoTask]
  /\ ev = [narration_done |-> FALSE, track_done |-> FALSE, skip |-> FALSE]
  /\ hist = [lock |-> NoLock, callers |-> [c \in TaskIds |-> NoCaller]]

NarrFrame == UNCHANGED <<flags, status, current_task, sequence_lock, calls, stops, tasks, ev>>

\* the clips of the body in the order play_narrations runs them
NarrClips == <<"intro", "detail", "artist">>

ClipIdx(pc) == CHOOSE i \in 1..Len(NarrClips) : NarrClips[i] = pc

InBody(cl) == cl.pc \in {"intro", "detail", "artist", "fade"}

\* Lock.acquire takes the lock at once when it is open and no waiter that
\* was not cancelled is queued
CanAcquireAlways(lock) == TRUE

CanAcquire(lock) ==
  /\ ~lock.locked
  /\ \A i \in 1..Len(lock.waiters) : lock.waiters[i].fut = "cancelled"

\* _wake_up_first: the future at the head of the queue gets its result,
\* unless it is done already
WakeUpFirst(lock) ==
  IF lock.waiters # <<>> /\ lock.waiters[1].fut = "pending"
  THEN [lock EXCEPT !.waiters[1].fut = "result"]
  ELSE lock

\* __aexit__ of `async with _narration_lock`
NarrRelease(lock) == WakeUpFirst([lock EXCEPT !.locked = FALSE])

\* the waiter's finally: its own future leaves the queue
Unqueue(lock, c) ==
  [lock EXCEPT !.waiters = SelectSeq(@, LAMBDA w : w.c # c)]

\* the body has been left: the lock is released on the way out
NarrLeave(h, c, how) ==
  [h EXCEPT !.lock = NarrRelease(@),
            !.callers[c] = [@ EXCEPT !.pc = "left", !.exit = how, !.cancel = FALSE]]

\* the body from the clip at index i on: the first clip that is enabled is
\* awaited, and with none left the body returns
RECURSIVE NarrFrom(_, _, _)

NarrFrom(h, c, i) ==
  IF i > Len(NarrClips)
  THEN {NarrLeave(h, c, "return")}
  ELSE {[h EXCEPT !.callers[c].pc = NarrClips[i]]} \cup NarrFrom(h, c, i + 1)

\* the lock is held: stale skip cleared, then the checkpoint, which raises
\* CancelledError when playback is stopped, then the clips
NarrEnter(h, c) ==
  LET h1 == [h EXCEPT !.lock.locked = TRUE]
  IN {[h1 EXCEPT !.callers[c].pc = "fade"]} \cup NarrFrom(h1, c, 1)

\* a task calls play_narrations: it enters the body at once or queues up
play_narrations(c) ==
  /\ hist.callers[c].pc = "idle"
  /\ IF CanAcquire(hist.lock)
     THEN \E h \in NarrEnter(hist, c) : hist' = h
     ELSE hist' = [hist EXCEPT
                     !.lock.waiters = Append(@, [c |-> c, fut |-> "pending"]),
                     !.callers[c] = [@ EXCEPT !.pc = "waiting", !.waited = TRUE]]
  /\ NarrFrame

\* a waiter whose future has its result resumes: it leaves the queue and
\* takes the lock
NarrResume(c) ==
  /\ hist.callers[c].pc = "waiting"
  /\ ~hist.callers[c].cancel
  /\ \E i \in 1..Len(hist.lock.waiters) :
       hist.lock.waiters[i] = [c |-> c, fut |-> "result"]
  /\ \E h \in NarrEnter([hist EXCEPT !.lock = Unqueue(@, c)], c) : hist' = h
  /\ NarrFrame

\* the clip the body awaits is over: it played to its end, it was skipped
\* (the body returns), or the body raised an Exception, which is logged
NarrClipEnd(c) ==
  /\ hist.callers[c].pc \in {"intro", "detail", "artist"}
  /\ ~hist.callers[c].cancel
  /\ \E outcome \in {"played", "skipped", "error"} :
       \/ /\ outcome = "played"
          /\ \E h \in NarrFrom(hist, c, ClipIdx(hist.callers[c].pc) + 1) : hist' = h
       \/ /\ outcome = "skipped"
          /\ hist' = NarrLeave(hist, c, "skip")
       \/ /\ outcome = "error"
          /\ hist' = NarrLeave(hist, c, "error")
  /\ NarrFrame

\* task.cancel() on a caller that is suspended: a pending future of the
\* queue is cancelled, and the task is to get a CancelledError
NarrCancel(c) ==
  /\ hist.callers[c].pc \in {"waiting", "intro", "detail", "artist", "fade"}
  /\ ~hist.callers[c].cancel
  /\ hist' = [hist EXCEPT
               !.callers[c].cancel = TRUE,
               !.lock.waiters = [i \in 1..Len(@) |->
                                   IF @[i] = [c |-> c, fut |-> "pending"]
                                   THEN [c |-> c, fut |-> "cancelled"]
                                   ELSE @[i]]]
  /\ NarrFrame

\* the CancelledError is delivered: a waiter leaves the queue and passes
\* the wake-up on when the lock is open; the body goes to its handler,
\* which fades the playback out before it re-raises; a handler that is
\* cancelled again is left at once
NarrCancelled(c) ==
  /\ hist.callers[c].cancel
  /\ LET cl == hist.callers[c] IN
     CASE cl.pc = "waiting" ->
            LET lock == Unqueue(hist.lock, c)
            IN hist' = [hist EXCEPT
                          !.lock = IF lock.locked THEN lock ELSE WakeUpFirst(lock),
                          !.callers[c] = [@ EXCEPT !.pc = "left", !.exit = "cancelled",
                                                   !.cancel = FALSE]]
       [] cl.pc = "fade" -> hist' = NarrLeave(hist, c, "cancelled")
       [] OTHER -> hist' = [hist EXCEPT !.callers[c] = [@ EXCEPT !.pc = "fade",
                                                                 !.cancel = FALSE]]
  /\ NarrFrame

\* stop_spotify_playback(fade_out_seconds=1.0) of the handler is over: raise
NarrFadeDone(c) ==
  /\ hist.callers[c].pc = "fade"
  /\ ~hist.callers[c].cancel
  /\ hist' = NarrLeave(hist, c, "cancelled")
  /\ NarrFrame

NextNarr ==
  \/ \E c \in TaskIds : play_narrations(c)
  \/ \E c \in TaskIds : NarrResume(c)
  \/ \E c \in TaskIds : NarrClipEnd(c)
  \/ \E c \in TaskIds : NarrCancel(c)
  \/ \E c \in TaskIds : NarrCancelled(c)
  \/ \E c \in TaskIds : NarrFadeDone(c)

NarrSpec == NarrInit /\ [][NextNarr]_vars

\* ─── single-track runs that follow one another (HandoverSpec) ───
\* play_narrations holds _narration_lock from its first line to its last:
\* the lock is free for run t when no other run is inside the body
NarrationLockFree(t) ==
  \A u \in TaskIds \ {t} :
    ~(/\ tasks[u].st \in {"running", "cancelling"}
      /\ tasks[u].pc \in NarrPhases \cup {"duck", "bedfade", "nfade"})

\* the first step of a run, which waits for the narration lock when
\* another run holds it
HandoverStart(t) ==
  /\ NarrationLockFree(t)
  /\ SingleStart(t)

\* a sleep or a fade of the run is over; the step from the settle delay of
\* over mode into play_narrations waits for the narration lock
HandoverTimer(t) ==
  /\ tasks[t].pc = "oversleep" => NarrationLockFree(t)
  /\ TimerDone(t)

\* /play-one is called again and again: every call goes through
\* start_new_sequence, and every run is a single-track run; the client
\* may skip
NextHandover ==
  \/ \E c \in TaskIds : StartCall(c)
  \/ \E c \in TaskIds : StartAcquire(c)
  \/ \E c \in TaskIds : StartSpawn(c)
  \/ \E t \in TaskIds : HandoverStart(t)
  \/ \E t \in TaskIds : ClipPoll(t)
  \/ \E t \in TaskIds : ClipDone(t)
  \/ \E t \in TaskIds : TrackSkipped(t)
  \/ \E t \in TaskIds : TrackTimeout(t)
  \/ \E t \in TaskIds : HandoverTimer(t)
  \/ \E t \in TaskIds : Heartbeat(t)
  \/ \E t \in TaskIds : SingleCancel(t)
  \/ skip

HandoverSpec == Init /\ [][NextHandover]_vars

\* ─── stop during the grace delay of a launch (RaceSpec) ───
\* the launch the stops race with: the last one that is issued
LastCall == MaxTasks

\* /playback/stop is called while the last start_new_sequence call holds
\* sequence_lock and sleeps between its cancel and its spawn
StopInGrace(s) ==
  /\ calls[LastCall] = "sleep"
  /\ sequence_lock = LastCall
  /\ StopBegin(s)

\* launches, the runs they spawn, and stops that arrive only inside the
\* grace delay of the last launch
NextRace ==
  \/ \E c \in TaskIds : StartCall(c)
  \/ \E c \in TaskIds : StartAcquire(c)
  \/ \E c \in TaskIds : StartSpawn(c)
  \/ \E s \in StopIds : StopInGrace(s)
  \/ \E s \in StopIds : StopEnd(s)
  \/ \E t \in TaskIds : TaskStart(t)
  \/ \E t \in TaskIds : FetchReturn(t)
  \/ \E t \in TaskIds : CancelDeliver(t)

RaceSpec == Init /\ [][NextRace]_vars

\* ───────────── properties ─────────────
StatusNeverPaused == ~status.is_paused

Started(t) ==
  \/ tasks[t].st = "running"
  \/ tasks[t].st = "cancelling" /\ tasks[t].pc # "start"

Ended(t) == tasks[t].st # "done" /\ tasks'[t].st = "done"

FlagsTornDown(fl) == ~fl.is_playing /\ fl.stopped

C2_PhaseOrder == ~hist.ooo

\* C3 Teardown on every terminal path: whenever a sequence runner
\* terminates, the playback state has is_playing = false and stopped = true
\* (read in favour of the claim: in either of the two state objects).
C3_Teardown ==
  [][\A t \in TaskIds :
       Ended(t) => FlagsTornDown(flags') \/ FlagsTornDown(status')]_vars

\* C4 Idempotent stop: a stop() that nothing else interleaves with ends with
\* is_playing = false, stopped = true, the cancel flag cleared and no active
\* task, and a second stop() right after it ends in the same state.
Terminal ==
  [is_playing |-> FALSE, stopped |-> TRUE, cancel_requested |-> FALSE, current_task |-> 0]

C4_IdempotentStop ==
  /\ hist.quiet /\ hist.chain >= 1 => hist.snap1 = Terminal
  /\ hist.quiet /\ hist.chain >= 2 => hist.snap2 = hist.snap1

C4_Witness ==
  /\ hist.quiet
  /\ hist.chain = 2
  /\ \E t \in TaskIds : tasks[t].result = "cancelled"

\* C5 Empty-result short-circuit: a run whose fetch returns no rows ends
\* with is_playing = false and without having published any phase.
C5_EmptyShortCircuit ==
  [][\A t \in TaskIds :
       Ended(t) /\ tasks'[t].result = "empty"
         => /\ ~tasks'[t].published
            /\ ~flags'.is_playing \/ ~status'.is_playing]_vars

\* C6 Before-mode blocking: in voice style "before" the runner publishes
\* nothing after a narration phase until narration_done_event has been set
\* after that publish.
C6_BeforeModeBlocks == ~hist.early

C6_Witness ==
  \E t \in TaskIds :
    /\ tasks[t].st = "running"
    /\ tasks[t].voice = "before"
    /\ hist.released \in NarrPhases
    /\ tasks[t].last # hist.released

\* C7 Narration-finished: once narration_finished has been handled while a
\* runner is blocked in a before-mode narration wait, narration_done_event
\* is set and the runner's wait is over.
C7_NarrationFinishedReleases ==
  \A t \in TaskIds :
    tasks[t].st = "running" /\ tasks[t].pc \in NarrPhases /\ hist.nfSince
      => ev.narration_done /\ tasks[t].woken

\* C8 Continuous advance: the continuous runner opens the items in list
\* order, each once, and opens no item after a published track phase until
\* track_done_event has been set after that publish.
C8_ContinuousAdvance ==
  /\ ~hist.earlyItem
  /\ \A t \in TaskIds :
       tasks[t].st = "running" /\ tasks[t].kind = "continuous" /\ tasks[t].idx >= 1
         => hist.visited = SubSeq(tasks[t].rows, 1, tasks[t].idx)

C8_Witness ==
  \E t \in TaskIds :
    /\ tasks[t].st = "running"
    /\ tasks[t].kind = "continuous"
    /\ tasks[t].idx = 2
    /\ Len(hist.visited) = 2
    /\ hist.released = "track"

\* C9 Continuous completion: with nothing cancelling it and the renderer
\* reporting narration_finished and track-finished whenever asked, a
\* continuous run that fetched rows eventually ends in the state "complete".
C9_ContinuousCompletes ==
  (tasks[1].st = "running" /\ tasks[1].kind = "continuous")
    ~> (tasks[1].st = "done" /\ tasks[1].result = "complete")

\* C10 Stale completion signals are discarded: no wait of a runner is ended
\* by a signal that was set before the phase was published.
C10_StaleDiscarded == ~hist.stale

C10_Witness == hist.discarded /\ hist.released # "-"

\* the runners that publish one rank and return
SingleRank == {"decade", "collection"}

\* a suspended runner takes its next step (a cancelled task passes through
\* "cancelling" and is not resumed)
Resumed(t) ==
  /\ tasks[t].st = "running"
  /\ tasks[t].pc \in NarrPhases \cup {"track", "fetch"}
  /\ tasks'[t].st \in {"running", "done"}
  /\ \/ tasks'[t].st = "done"
     \/ tasks'[t].pc # tasks[t].pc
     \/ tasks'[t].idx # tasks[t].idx

\* C13 Cooperative cancellation: a runner that resumes from a suspension
\* (narration wait, track wait, catalog fetch) while status.stopped or
\* status.cancel_requested is set publishes no further phase and ends.
C13_CooperativeCancel ==
  [][\A t \in TaskIds :
       Resumed(t) /\ (status.stopped \/ status.cancel_requested)
         => tasks'[t].st = "done" /\ status'.phase = status.phase]_vars

\* C20 Single-rank runs do not wait for the track: a single-rank runner is
\* never suspended on track_done_event, and when its run ends right after
\* the track publish, status.phase still reads "track".
C20_SingleRankNoTrackWait ==
  /\ [](\A t \in TaskIds : tasks[t].kind \in SingleRank => tasks[t].pc # "track")
  /\ [][\A t \in TaskIds :
          /\ Ended(t)
          /\ tasks'[t].kind \in SingleRank
          /\ tasks'[t].last = "track"
          /\ tasks'[t].result = "complete"
          => status'.phase = "track"]_vars

C20_Witness ==
  \E t \in TaskIds :
    /\ tasks[t].st = "done"
    /\ tasks[t].kind \in SingleRank
    /\ tasks[t].last = "track"
    /\ tasks[t].result = "complete"
    /\ status.phase = "track"

\* C15 Pause holds the runner: between pause() and resume() a runner that
\* is under way publishes no phase (in this specification only the runner
\* writes status.phase).
C15_PauseHolds ==
  [][RunInProgress /\ flags.is_paused /\ flags'.is_paused
       => status'.phase = status.phase]_vars

\* C17 The single-flight lock is held only during the cancel-then-spawn
\* transition: the lock is held only by a start_new_sequence call that is
\* between its cancel and its spawn, and every call that was issued returns,
\* also while the active sequence stays blocked in a wait.
C17_LockOnlyInTransition ==
  /\ [](sequence_lock # 0 => calls[sequence_lock] = "sleep")
  /\ \A c \in TaskIds : (calls[c] \in {"waitlock", "sleep"}) ~> (calls[c] = "done")

C17_Witness ==
  /\ calls[2] = "done"
  /\ sequence_lock = 0
  /\ tasks[1].st = "done"
  /\ tasks[2].st = "running"
  /\ tasks[2].pc \in NarrPhases \cup {"track"}

\* C19 Over-mode does not block: a single-rank run in voice style "over"
\* terminates although no completion signal is ever set.
C19_OverModeTerminates ==
  (tasks[1].st = "running" /\ tasks[1].kind \in SingleRank /\ tasks[1].voice = "over")
    ~> (tasks[1].st = "done")

C19_Witness ==
  /\ tasks[1].st = "done"
  /\ tasks[1].kind \in SingleRank
  /\ tasks[1].voice = "over"
  /\ tasks[1].result = "complete"
  /\ tasks[1].last \in NarrPhases \cup {"track"}
  /\ ~ev.narration_done /\ ~ev.track_done /\ ~ev.skip

\* C18: whichever runner it is, a run whose catalog fetch never returns
\* ends all the same, as a fetch timeout (or because it was cancelled in
\* the meantime), and has published neither "prelude" nor an item phase
C18_BoundedFetch ==
  \A t \in TaskIds :
    (tasks[t].st = "running" /\ tasks[t].pc \in {"hung", "dbexec"})
      ~> (/\ tasks[t].st = "done"
          /\ tasks[t].result \in {"timeout", "cancelled"}
          /\ tasks[t].last \in {"-", "loading"})

\* C16: cancel_current_sequence clears the flag it sets: once no cancel
\* operation is under way (no stop() or launch in its grace delay, no run in
\* its closing cancel), cancel_requested is false
CancelUnderWay ==
  \/ \E s \in StopIds : stops[s] = "sleep"
  \/ \E c \in TaskIds : calls[c] = "sleep"
  \/ \E t \in TaskIds : tasks[t].st \in {"running", "cancelling"} /\ tasks[t].pc = "endsleep"

C16_CancelFlagCleared == ~CancelUnderWay => ~flags.cancel_requested

\* C11: no phase of a single-track run gives up because of a skip signal
\* that was already set when the phase began
C11_StaleSkipCleared == ~hist.staleAbort

\* a phase of a single-track run ends in this step, other than by
\* cancellation
PhaseEnds(t) ==
  /\ tasks[t].kind = "single"
  /\ tasks[t].st = "running"
  /\ tasks[t].pc \in NarrPhases \cup {"track"}
  /\ tasks'[t].pc # tasks[t].pc

\* C12: whenever a phase of a single-track run has ended, the skip signal
\* is not set: whoever saw it cleared it
C12_SkipCheckAndClear ==
  [][\A t \in TaskIds : PhaseEnds(t) => ~ev'.skip]_vars

\* C14: once stop() has been issued against a running sequence the task
\* ends, whatever signals arrive, and nothing is published after stop() has
\* returned and before the next launch
C14_StopEndsSequence ==
  /\ [](~hist.late)
  /\ \A t \in TaskIds :
       (tasks[t].st = "cancelling" /\ StopOpen) ~> (tasks[t].st = "done")

\* ───────────── C21 ─────────────
ItemOrder == <<"intro", "detail", "artist", "track">>

ItemIdx(ph) == IF ph \in ItemPhases THEN CHOOSE i \in 1..4 : ItemOrder[i] = ph ELSE 0

\* the phases of an item that are enabled and have their asset
Due(it) == it.play \cap it.assets

DueAfter(it, ph) == {i \in (ItemIdx(ph) + 1)..4 : ItemOrder[i] \in Due(it)}

Least(S) == CHOOSE i \in S : \A j \in S : i <= j

\* the phase that follows ph in an item, the next item's first one when ph
\* was the item's last
NextDue(it, ph) ==
  IF DueAfter(it, ph) # {} THEN ItemOrder[Least(DueAfter(it, ph))]
  ELSE IF DueAfter(it, "-") # {} THEN ItemOrder[Least(DueAfter(it, "-"))]
  ELSE "-"

\* C21: a phase that is enabled but has no bucket/key (no spotify_track_id
\* for the track) is neither published nor waited on, the run goes on with
\* the next phase of the item that is enabled and has its asset, and a run
\* that ends does so after the last such phase
C21_MissingAssetFailOpen ==
  [][\A t \in TaskIds :
       LET a == tasks[t]
           b == tasks'[t]
           it == b.item
       IN it.fixed =>
            /\ b.last \in ItemPhases => b.last \in Due(it)
            /\ b.pc \in ItemPhases => b.pc \in Due(it)
            /\ (b.voice = "before" /\ b.last # a.last /\ b.last \in ItemPhases)
                 => b.last = NextDue(it, a.last)
            /\ (Ended(t) /\ b.kind \in SingleRank /\ b.result = "complete")
                 => DueAfter(it, b.last) = {}]_vars

\* a run went past an enabled intro without asset and waits on the detail
\* narration it published next
C21_Witness ==
  \E t \in TaskIds :
    /\ tasks[t].item.fixed
    /\ "intro" \in tasks[t].item.play \ tasks[t].item.assets
    /\ tasks[t].st = "running"
    /\ tasks[t].pc = "detail"
    /\ tasks[t].last = "detail"
    /\ status.phase = "detail"

\* ───────────── C22 ─────────────
\* a run that has caught a CancelledError and is in the fade-out of its
\* handler
Unwinding(tk) == tk.st = "running" /\ tk.pc \in {"nfade", "cancelfade"}

\* C22: a cancellation that reaches a run, in the runner or in its narration
\* and track helpers, is raised up to the task boundary: from its delivery
\* on the task does nothing but unwind and ends as cancelled; it never goes
\* on with the sequence
C22_OnlyCancellationPropagates ==
  [][\A t \in TaskIds :
       ((tasks[t].st = "cancelling" \/ Unwinding(tasks[t])) /\ tasks'[t] # tasks[t])
         => \/ tasks'[t].st = "cancelling"
            \/ Unwinding(tasks'[t])
            \/ tasks'[t].st = "done" /\ tasks'[t].result = "cancelled"]_vars

\* ───────────── C23 ─────────────
\* a step of a sequence task: of its runner or of the publisher it calls
RunnerStep(t) == tasks[t].st \in {"pending", "running", "cancelling"} /\ tasks'[t] # tasks[t]

\* C23: PlaybackStatus changes only in steps of a sequence runner or of its
\* narration phase publisher; the commands of the renderer and the status
\* poll leave it as it is
C23_ExclusiveWriters ==
  [][status' # status => \E t \in TaskIds : RunnerStep(t)]_vars

\* ───────────── C24 ─────────────
PhaseDomain ==
  {"idle", "loading", "prelude", "intro", "detail", "artist", "track",
   "track_finished", "ended"}

\* C24: in every reachable state PlaybackStatus.phase is one of idle,
\* loading, prelude, intro, detail, artist, track, track_finished and ended;
\* it is never unset, also not at the start of a sequence or after a reset
C24_PhaseDomain == status.phase \in PhaseDomain

\* ───────────── C25 ─────────────
Active(tk) == tk.st \in {"running", "cancelling"}

BecomesIdle == status'.phase \in {"idle", "ended"} /\ status.phase # status'.phase

FirstPublish(t) ==
  ~tasks[t].published /\ tasks'[t].published /\ tasks'[t].st = "running"

\* C26: when a runner publishes its first phase, stopped and
\* cancel_requested are false in the playback state (the status and the
\* flags), whatever an earlier sequence or command left behind
C26_FreshFlagsAtStart ==
  [][\A t \in TaskIds :
       FirstPublish(t) => /\ ~status'.stopped /\ ~status'.cancel_requested
                          /\ ~flags'.stopped /\ ~flags'.cancel_requested]_vars

\* ───────────── C27 ─────────────
\* no task is pending or running and no cancel_current_sequence is under way
Quiescent ==
  /\ ~CancelUnderWay
  /\ \A t \in TaskIds : tasks[t].st \notin {"pending", "running", "cancelling"}

\* C27: every duck or fade-out done for a sequence is followed by a
\* restoration to 100, also when the sequence is cancelled in the middle of
\* it: once all tasks are quiescent the device volume is 100
C27_VolumeRestored == Quiescent => hist.volume = FullVolume

\* ───────────── C28 ─────────────
Clamped(e, d) == IF d = 0 THEN Frac(0, 1) ELSE Frac(Min(e, d), d)

SameFrac(p, q) == p.num * q.den = q.num * p.den

LeqFrac(p, q) == p.num * q.den <= q.num * p.den

\* C28: in every reachable state percent_complete is elapsed/duration
\* clamped to [0,1], and 0 when the duration is 0; no writer leaves a value
\* outside [0,1]
C28_PercentInRange ==
  LET p == status.percent_complete
  IN /\ 0 <= p.num /\ p.num <= p.den
     /\ SameFrac(p, Clamped(status.elapsed_seconds, status.duration_seconds))

\* ───────────── C29 ─────────────
\* C29: while one heartbeat runs on a phase of duration D > 0, successive
\* percent_complete readings do not decrease, and the reading is 1.0
\* exactly when elapsed_seconds >= D
C29_ProgressMonotone ==
  /\ [][(hist'.beat = hist.beat /\ hist.beat # "-"
         /\ status'.duration_seconds = status.duration_seconds)
        => LeqFrac(status.percent_complete, status'.percent_complete)]_vars
  /\ []((hist.beat # "-" /\ status.duration_seconds > 0)
        => (SameFrac(status.percent_complete, Frac(1, 1))
            <=> status.elapsed_seconds >= status.duration_seconds))

\* ───────────── C30 ─────────────
Elems(s) == {s[i] : i \in 1..Len(s)}

\* the same rows, none dropped and none twice
IsPermOf(out, rows) ==
  /\ Len(out) = Len(rows)
  /\ Elems(out) = Elems(rows)
  /\ \A i, j \in 1..Len(out) : out[i] = out[j] => i = j

IsAscending(s) == \A i, j \in 1..Len(s) : i < j => s[i] < s[j]

IsDescending(s) == \A i, j \in 1..Len(s) : i < j => s[i] > s[j]

PermsOf(rows) == {s \in [1..Len(rows) -> Elems(rows)] : IsPermOf(s, rows)}

\* what the ordering that was applied can give on these rows
Orderings(by, rows, mode) ==
  IF by = "decade" THEN DecadeOrder(rows, mode) ELSE OrderRows(rows, mode)

\* C30: on rows with distinct ranks count_up gives the rows in ascending
\* rank, count_down in descending rank, random a permutation of the same
\* rows, every permutation being possible; no row is dropped or duplicated
C30_OrderingPolicy ==
  hist.by # "-" =>
    /\ IsPermOf(hist.out, hist.rows)
    /\ hist.mode = "count_up" => IsAscending(hist.out)
    /\ hist.mode = "count_down" => IsDescending(hist.out)
    /\ hist.mode = "random" => Orderings(hist.by, hist.rows, hist.mode) = PermsOf(hist.rows)

\* order_rows_for_mode has put three rows that came in another order into
\* ascending rank
C30_Witness ==
  /\ hist.by = "decade"
  /\ hist.mode = "count_up"
  /\ Len(hist.rows) = 3
  /\ hist.rows # hist.out
  /\ IsAscending(hist.out)

\* ───────────── C31 ─────────────
\* C31: ordering has no side effect: after it the list the caller passed
\* still holds the rows in the order in which it was passed, and an
\* ascending list ordered count_up comes back in the same order
C31_SequencerPure ==
  hist.by # "-" =>
    /\ hist.list = hist.rows
    /\ (hist.mode = "count_up" /\ IsAscending(hist.rows)) => hist.out = hist.rows

\* ───────────── C32 ─────────────
\* a session cookie that create_jwt_token issued and that has not expired
ValidSession(c, now) ==
  \E u \in SpotifyIds, t \in 0..MaxTime :
    /\ c = create_jwt_token(u, t)
    /\ now < t + JWT_EXP_DELTA_SECONDS

TokenRoutes == {"/spotify/token", "/spotify/sdk-token"}

\* C32: the token endpoints return a Spotify token only to a valid session
\* cookie, and then the token of the account of the cookie's user_id; any
\* other cookie is answered 401 without a look into the token table
C32_SessionGatedToken ==
  hist.resp.route \in TokenRoutes =>
    /\ hist.resp.token # NoToken =>
         /\ ValidSession(hist.resp.cookie, hist.now)
         /\ hist.resp.code = 200
         /\ hist.topspot_users[hist.resp.token.owner] = hist.resp.cookie.user_id
    /\ ~ValidSession(hist.resp.cookie, hist.now) =>
         /\ hist.resp.code = 401
         /\ hist.resp.token = NoToken
         /\ hist.resp.looked = 0

\* the second account asks with its cookie after its stored token has
\* expired and gets a refreshed token of its own, while the first account
\* has a session as well
C32_Witness ==
  /\ hist.resp.route \in TokenRoutes
  /\ hist.resp.code = 200
  /\ hist.resp.token.owner = 2
  /\ hist.resp.token.at = hist.now
  /\ hist.topspot_users[2] = 1
  /\ hist.jar[1] # NoCookie

\* C32 (rejection): an expired cookie of a real session has been answered 401
C32_Rejected ==
  /\ hist.resp.route \in TokenRoutes
  /\ hist.resp.code = 401
  /\ hist.resp.cookie # NoCookie
  /\ hist.resp.cookie = create_jwt_token(hist.resp.cookie.user_id, hist.resp.cookie.exp - JWT_EXP_DELTA_SECONDS)

\* ───────────── C33 ─────────────
CallbackStep == hist'.resp.route = "callback" /\ hist'.now = hist.now

\* C33: a callback for a profile that is not premium redirects to the
\* not-spotify-premium page and leaves users, tokens and cookies alone;
\* a callback that creates a user, stores tokens or sets a cookie is one
\* for a premium profile, and the redirect that carries the cookie has
\* the user and the tokens in place and the cookie HttpOnly
C33_PremiumGate ==
  [][CallbackStep =>
       LET r == hist'.resp
       IN /\ (r.product # "premium" /\ r.code # 400) =>
               /\ r.code = 307 /\ r.location = "not-spotify-premium"
               /\ r.set_cookie = NoCookie
               /\ hist'.topspot_users = hist.topspot_users
               /\ hist'.spotify_tokens = hist.spotify_tokens
               /\ hist'.jar = hist.jar
          /\ (\/ hist'.topspot_users # hist.topspot_users
              \/ hist'.spotify_tokens # hist.spotify_tokens
              \/ r.set_cookie # NoCookie) => r.product = "premium"
          /\ r.set_cookie # NoCookie =>
               /\ r.httponly
               /\ r.code = 307 /\ r.location \in {"create-account", "dashboard"}
               /\ hist'.topspot_users[r.who] # 0
               /\ hist'.spotify_tokens[hist'.topspot_users[r.who]].access_token
                    = SpotifyToken(r.who, hist.now)
               /\ r.set_cookie = create_jwt_token(hist'.topspot_users[r.who], hist.now)
  ]_vars

\* a free account has been sent to the not-spotify-premium page while a
\* premium account holds a session, and it has no user row
C33_Witness ==
  /\ hist.resp.route = "callback"
  /\ hist.resp.product = "free"
  /\ hist.resp.location = "not-spotify-premium"
  /\ hist.topspot_users[hist.resp.who] = 0
  /\ \E q \in SpotifyIds : hist.jar[q] # NoCookie

\* ───────────── C34 ─────────────
\* the ranks the query of the run returns
Fetched(run) == {r \in hist.catalog : r >= run.start /\ r <= run.end}

\* the rank the order of the run puts first
Heads(run) ==
  CASE run.mode = "count_up"   -> {r \in Fetched(run) : \A q \in Fetched(run) : r <= q}
    [] run.mode = "count_down" -> {r \in Fetched(run) : \A q \in Fetched(run) : r >= q}
    [] OTHER                   -> Fetched(run)

SingleRankRun == hist.run.kind \in {"decade", "collection"}

\* C34: a single-rank run publishes one item only, the head of the ordered
\* list: the lowest fetched rank for count_up, the highest for count_down,
\* a fetched one for random; every phase it publishes after loading carries
\* that rank as current rank
C34_HeadSelection ==
  [][/\ (SingleRankRun /\ hist'.run.pc = "publishing") =>
          /\ hist'.run.rank \in Heads(hist'.run)
          /\ hist'.run.pubs \subseteq {hist'.run.rank}
     /\ (SingleRankRun /\ hist.run.pc \in {"loading", "publishing"}
           /\ status'.phase # status.phase /\ hist'.run.pc = "publishing") =>
          /\ status'.current_rank = hist'.run.rank
          /\ status'.current_rank \in Heads(hist.run)
  ]_vars

\* a count_down run over two ranks, started at rank 1, has published
\* detail for rank 2
C34_Witness ==
  /\ hist.run.kind = "decade"
  /\ hist.run.mode = "count_down"
  /\ hist.run.start = 1
  /\ Cardinality(Fetched(hist.run)) = 2
  /\ hist.run.last = "detail"
  /\ status.phase = "detail"
  /\ status.current_rank = 2
  /\ hist.run.pubs = {2}

\* ───────────── C35 ─────────────
\* a decade/genre sequence has published the rank that is current
ActiveContext ==
  /\ hist.run.kind \in {"decade", "one"}
  /\ hist.run.pc \in {"publishing", "done"}
  /\ hist.run.rank # 0
  /\ flags.current_rank = hist.run.rank

\* the rank /next has to go to from rank r in the order of the sequence
Successors(r, mode) ==
  CASE mode = "count_up"   -> {q \in hist.catalog : q > r /\ \A x \in hist.catalog : x > r => q <= x}
    [] mode = "count_down" -> {q \in hist.catalog : q < r /\ \A x \in hist.catalog : x < r => q >= x}
    [] OTHER               -> hist.catalog \ {r}

\* C35: next() on an active decade/genre context at rank r goes to the
\* successor of r for count_up, the predecessor for count_down, another
\* rank for random, and starts a single-rank sequence for it; at the end
\* of the list it answers done and leaves the running sequence alone
C35_ManualAdvance ==
  [][(ActiveContext /\ hist'.resp.route = "next") =>
       IF Successors(flags.current_rank, hist.run.mode) = {}
       THEN hist'.resp.status = "done" /\ hist'.run = hist.run
       ELSE /\ hist'.resp.status = "playing-next"
            /\ hist'.resp.to \in Successors(flags.current_rank, hist.run.mode)
            /\ hist'.run = NewRun("one", hist'.resp.to, hist'.resp.to, hist.run.mode)
  ]_vars

\* ───────────── C36 ─────────────
\* C36: safe_play makes at most SUPA_FETCH_RETRIES attempts; it returns
\* True only after it has consumed a skip, it never raises to its caller,
\* and when it has returned its progress heartbeat no longer runs
C36_BoundedRetry ==
  /\ hist.clip.attempt <= SUPA_FETCH_RETRIES
  /\ hist.clip.result \in {"-", "True", "False"}
  /\ hist.clip.result = "True" => hist.clip.consumed
  /\ hist.clip.pc = "returned" => hist.clip.hb \in {"none", "done"}

\* ───────────── C37 ─────────────
\* C37: at most one play_narrations body runs at a time; the narration
\* lock is closed exactly while a body runs, so every way out of the body
\* (return, skip, error, cancellation) has released it, and a caller that
\* has left is no longer queued
C37_NarrationsNeverOverlap ==
  /\ Cardinality({c \in TaskIds : InBody(hist.callers[c])}) <= 1
  /\ hist.lock.locked <=> \E c \in TaskIds : InBody(hist.callers[c])
  /\ \A i \in 1..Len(hist.lock.waiters) :
       hist.callers[hist.lock.waiters[i].c].pc = "waiting"
  /\ \A c \in TaskIds :
       hist.callers[c].pc = "waiting" =>
         \E i \in 1..Len(hist.lock.waiters) : hist.lock.waiters[i].c = c

\* a body was cancelled and has left, and a caller that had to wait for
\* it is in the body now
C37_Witness ==
  \E c, d \in TaskIds :
    /\ hist.callers[c].pc = "left"
    /\ hist.callers[c].exit = "cancelled"
    /\ ~hist.callers[c].waited
    /\ hist.callers[d].waited
    /\ hist.callers[d].pc = "detail"
    /\ hist.lock.locked

\* ───────────── C38 ─────────────
\* run t has been replaced: a newer task is the current one
Superseded(t) ==
  /\ current_task # 0
  /\ current_task # t
  /\ tasks[t].st \in {"running", "cancelling"}

\* C38: a step of a run that start_new_sequence has cancelled and replaced
\* leaves current_task alone, does not cancel the newer task and does not
\* turn the flags the newer sequence reads to stopped or cancel-requested
C38_SupersededHarmless ==
  [][\A t \in TaskIds :
       (Superseded(t) /\ tasks'[t] # tasks[t] /\ calls' = calls) =>
         /\ current_task' = current_task
         /\ tasks'[current_task].st = tasks[current_task].st
         /\ flags.is_playing => flags'.is_playing
         /\ ~flags.stopped => ~flags'.stopped
         /\ ~flags.cancel_requested => ~flags'.cancel_requested
  ]_vars

\* ───────────── C39 ─────────────
\* the last launch and every stop that was issued have returned, and at
\* least one stop was issued
RaceOver ==
  /\ calls[LastCall] = "done"
  /\ \E s \in StopIds : stops[s] = "done"
  /\ \A s \in StopIds : stops[s] # "sleep"

\* C39: when stop() was issued inside the grace delay of a
\* start_new_sequence call and both have returned, no sequence task is
\* running and the flags read is_playing = false, stopped = true
C39_StopNotLost ==
  RaceOver =>
    /\ \A t \in TaskIds : tasks[t].st \notin {"pending", "running", "cancelling"}
    /\ ~flags.is_playing
    /\ flags.stopped

\* ───────────── C40 ─────────────
\* the step is resume() answering a pause() that interrupted a sequence
\* which is still the current task and was not stopped
ResumeAfterPause ==
  /\ flags.is_paused
  /\ ~flags'.is_paused
  /\ current_task # 0
  /\ tasks[current_task].st \in {"pending", "running"}
  /\ ~flags.stopped
  /\ ~status.stopped
  /\ ~status.cancel_requested

\* C40: after pause() and resume() the control flags are back at
\* is_paused = false, is_playing = true, cancel_requested = false and the
\* skip signal is clear, so the sequence is not taken for cancelled
C40_PauseResumeRoundTrip ==
  [][ResumeAfterPause =>
       /\ ~flags'.is_paused
       /\ flags'.is_playing
       /\ ~flags'.cancel_requested
       /\ ~ev'.skip
       /\ ~IsCancelledOrStopped(status', flags')
  ]_vars

====
